---- MODULE Spec2Model ----
(***************************************************************************)
(* maglev-go: the Maglev consistent hash table (package chash) and the     *)
(* health monitor (package health_monitor), modelled as state machines.    *)
(*                                                                         *)
(* Two families of specifications share the variables of this module:      *)
(*   SpecCH   - concurrent callers of chash Add / Remove / Hash            *)
(*   SpecHM.. - the health monitor and the goroutines that call it         *)
(* The variables of the component a specification does not exercise keep   *)
(* their constructed value.                                                *)
(***************************************************************************)
EXTENDS Integers, Sequences, FiniteSets, TLC

\* ------------------------------------------------------------------ bounds
\* Longest argument list of one chash Add / Remove call.
MaxBatch == 2
\* Largest key handed to chash Hash (beyond the table size, so that the
\* reduction key % size is exercised).
MaxKey == 5
\* Largest sampled crc32 checksum.
MaxCrc == 4

\* Longest argument list of one health monitor Add / Remove call.
MaxHMBatch == 2
\* Ticks of the health monitor's ticker in one run.
MaxTicks == 3

\* Width of a time.Duration, in bits: with 8 bits twice the default interval
\* (30) fits and twice an interval of 100 wraps around, as twice an interval
\* of 2^62 ns does in Go's 64 bits.
DurWidth == 8

\* Width of the unsigned words of permutationAt and computeLookupTable. Go's
\* uint32 has 32 bits and the sizes the package offers are 65537 = 2^16 + 1
\* (SmallSize) and 655373; the model scales both down together: size 5 = 2^2 + 1
\* with 4-bit words stands to 65537 with 32-bit words ((size - 1)^2 is exactly
\* the word modulus in both), and size 3 stays clear of any wrap.
UintWidth == 4
Uint32Mod == 2 ^ UintWidth

\* Backend names given to chash (nonempty strings).
CHNames == {"b1", "b2"}
\* Table sizes handed to NewConsistentHash (primes, as its contract asks).
CHSizes == {3, 5}
\* Goroutines calling into one consistentHashImpl.
CHProcs == {"p1", "p2"}

None == "-"

\* ------------------------------------------------------------- sync.RWMutex
\* writer: the goroutine that owns the writer mutex (it has announced Lock and
\* either holds the lock or waits for the active readers to leave);
\* readers: goroutines holding the read lock; rwait: goroutines blocked in
\* RLock behind an announced writer, admitted together at Unlock.
NewRWMutex == [writer |-> None, readers |-> {}, rwait |-> {}]

\* Lock() may announce itself once no other writer owns the writer mutex.
CanLockAnnounce(m) == m.writer = None
LockAnnounce(m, p) == [m EXCEPT !.writer = p]
\* The announced writer holds the lock once the active readers have left.
LockHeld(m, p) == m.writer = p /\ m.readers = {}
\* RLock(): admitted at once unless a writer is announced; else it queues.
RLockAdmits(m) == m.writer = None
RLock(m, p) ==
    IF RLockAdmits(m) THEN [m EXCEPT !.readers = @ \cup {p}]
                      ELSE [m EXCEPT !.rwait = @ \cup {p}]
RLockHeld(m, p) == p \in m.readers
RUnlock(m, p) == [m EXCEPT !.readers = @ \ {p}]
Unlock(m, p) == [m EXCEPT !.writer = None, !.readers = @ \cup m.rwait, !.rwait = {}]


\* ============================================================== package chash
VARIABLES
    size,         \* consistentHashImpl.size
    crcOffset,    \* crc32(name ++ "offset"), per name
    crcSkip,      \* crc32(name ++ "skip"), per name
    chBackends,   \* consistentHashImpl.backends: name -> {id, offset, skip}
    lookup,       \* consistentHashImpl.lookup ([]string, indexed from 0; nil is <<>>)
    backendsMtx,  \* consistentHashImpl.backendsMtx
    lookupMtx,    \* consistentHashImpl.lookupMtx
    pc,           \* each goroutine's position in the call it runs
    opKind,       \* the call a goroutine runs: "Add", "Remove", "Hash" or None
    opArgs,       \* the names handed to Add / Remove
    opKey,        \* the key handed to Hash
    ret,          \* the value Hash is about to return
    hMem,         \* the names in c.backends when Hash read len(c.backends)
    cSlice,       \* computeLookupTable: backends (the sorted slice)
    cNext,        \* computeLookupTable: next
    cEntry,       \* computeLookupTable: entry
    cN,           \* computeLookupTable: n
    cI            \* computeLookupTable: i

chVars == <<size, crcOffset, crcSkip, chBackends, lookup, backendsMtx, lookupMtx,
            pc, opKind, opArgs, opKey, ret, hMem, cSlice, cNext, cEntry, cN, cI>>

\* ===================================================== package health_monitor
VARIABLES
    opts,           \* the Config the options of NewHealthMonitor have written
    cfg,            \* healthMonitorImpl.cfg
    hmBackends,     \* healthMonitorImpl.backends: name -> {Cfg, healthy, statusStreak}
    hmBackendsMtx,  \* healthMonitorImpl.backendsMtx
    healthyChan,    \* outputChannels.healthyChan: its buffer and whether it is closed
    unhealthyChan,  \* outputChannels.unhealthyChan
    ctxDone,        \* h.ctx is cancelled
    tickerStopped,  \* h.tickerStopped is closed
    tk,             \* the ticker goroutine's position ("off" before it is spawned)
    probe,          \* the probe goroutines of the tick in progress, per backend
    lastChecked,    \* healthMonitorImpl.lastChecked, in ticks
    hpc,            \* each client goroutine's position in the call it runs
    cl,             \* the call a client goroutine runs and its locals
    hret,           \* the result of a client goroutine's last call
    hfault,         \* the panic that ended a client goroutine
    started,        \* Start has been called
    stopCalled,     \* Stop has been called
    consec          \* per backend, its probe results of one direction in a row

hmVars == <<opts, cfg, hmBackends, hmBackendsMtx, healthyChan, unhealthyChan, ctxDone,
            tickerStopped, tk, probe, lastChecked, hpc, cl, hret, hfault, started,
            stopCalled, consec>>
\* Written by NewHealthMonitor only.
hmConst == <<opts, cfg>>

\* ========================================================= package tuple_hash
VARIABLES
    thArgs,         \* the 5-tuple handed to the last call of Hash
    thRet           \* what that call returned: the checksum and the error

thVars == <<thArgs, thRet>>

\* Go slices, indexed from 0.
MakeSlice(n, v) == [k \in 0 .. n - 1 |-> v]
SliceLen(s) == Cardinality(DOMAIN s)

\* Argument lists of Add / Remove: every sequence of names up to MaxBatch long.
CHArgLists == UNION {[1 .. k -> CHNames] : k \in 0 .. MaxBatch}
CHKeys == 0 .. MaxKey

\* crc32 of a name with a suffix, as sampled for the model: the checksum is an
\* arbitrary uint32 fixed per name; the samples reach every residue the code
\* takes of it (offset in 0 .. size-1, skip in 1 .. size-1).
CrcSamples == 0 .. MaxCrc

\* Add, lines 441-450: one iteration of the loop over the names. The record is
\* written whether or not the name is present; id is len(c.backends) before it.
AddOne(m, name) ==
    LET rec == [id |-> Cardinality(DOMAIN m),
                offset |-> crcOffset[name] % size,
                skip |-> (crcSkip[name] % (size - 1)) + 1]
    IN  [x \in DOMAIN m \cup {name} |-> IF x = name THEN rec ELSE m[x]]

RECURSIVE AddAll(_, _, _)
AddAll(m, names, k) ==
    IF k > Len(names) THEN m ELSE AddAll(AddOne(m, names[k]), names, k + 1)

\* Remove, lines 465-467: delete every listed name.
RemoveAll(m, names) ==
    [x \in DOMAIN m \ {names[k] : k \in DOMAIN names} |-> m[x]]

\* permutationAt, lines 545-548, in uint32 arithmetic.
permutationAt(name, j) ==
    ((chBackends[name].offset + j * chBackends[name].skip) % Uint32Mod) % size

\* getBackendsAsSlice, lines 553-563: the names sorted by id. Names of equal id
\* come out in either order (map iteration order, sort.Slice is not stable).
getBackendsAsSlice ==
    LET n == Cardinality(DOMAIN chBackends)
    IN  {s \in [0 .. n - 1 -> DOMAIN chBackends] :
            /\ \A a, b \in 0 .. n - 1 : a # b => s[a] # s[b]
            /\ \A a, b \in 0 .. n - 1 :
                   a < b => chBackends[s[a]].id <= chBackends[s[b]].id}

\* computeLookupTable, lines 521-527: the first index from j on whose
\* candidate slot is free. next[i] is a uint32, so after Uint32Mod increments
\* the candidates repeat: when none of them is free the loop never ends (-1).
RECURSIVE NextFree(_, _, _, _)
NextFree(entry, name, j, tries) ==
    IF tries = 0 THEN -1
    ELSE IF entry[permutationAt(name, j)] >= 0
        THEN NextFree(entry, name, (j + 1) % Uint32Mod, tries - 1)
        ELSE j

\* A population that stops one slot short.
LookupFullOneShort(n) == n = size - 1

\* computeLookupTable, line 536: the table is full.
LookupFull(n) == n = size

\* computeLookupTable, line 519: the index of the inner loop after i; past the
\* last backend the outer loop starts the inner one again at 0.
NextIndexStuck(i, len) == i
NextIndex(i, len) == (i + 1) % len

\* computeLookupTable, lines 502-541, run from its first line to its return on
\* the sorted slice s: the table it leaves in c.lookup, or <<>> when its loops
\* do not end (no backend, or no free candidate).
RECURSIVE Populate(_, _, _, _, _, _)
Populate(s, next, entry, table, n, i) ==
    LET name == s[i]
        j == NextFree(entry, name, next[i], Uint32Mod)
        candidate == permutationAt(name, j)
        n1 == (n + 1) % Uint32Mod
    IN  IF j < 0 THEN <<>>
        ELSE IF LookupFull(n1) THEN [table EXCEPT ![candidate] = name]
        ELSE Populate(s, [next EXCEPT ![i] = (j + 1) % Uint32Mod],
                      [entry EXCEPT ![candidate] = i],
                      [table EXCEPT ![candidate] = name], n1,
                      NextIndex(i, SliceLen(s)))

computeLookupTable(s) ==
    IF SliceLen(s) = 0 THEN <<>>
    ELSE Populate(s, MakeSlice(SliceLen(s), 0), MakeSlice(size, -1),
                  MakeSlice(size, ""), 0, 0)

\* Where computeLookupTable returns to.
AfterCompute(p) == IF opKind[p] = "Hash" THEN "h_read" ELSE "m_lunlock"

\* NewConsistentHash, lines 421-430: an empty membership map and a nil lookup.
NewConsistentHash ==
    /\ chBackends = <<>>
    /\ lookup = <<>>
    /\ backendsMtx = NewRWMutex
    /\ lookupMtx = NewRWMutex
    /\ pc = [p \in CHProcs |-> "idle"]
    /\ opKind = [p \in CHProcs |-> None]
    /\ opArgs = [p \in CHProcs |-> <<>>]
    /\ opKey = [p \in CHProcs |-> 0]
    /\ ret = [p \in CHProcs |-> None]
    /\ hMem = [p \in CHProcs |-> {}]
    /\ cSlice = [p \in CHProcs |-> <<>>]
    /\ cNext = [p \in CHProcs |-> <<>>]
    /\ cEntry = [p \in CHProcs |-> <<>>]
    /\ cN = [p \in CHProcs |-> 0]
    /\ cI = [p \in CHProcs |-> 0]

chConst == <<size, crcOffset, crcSkip>>
chLocals == <<cSlice, cNext, cEntry, cN, cI>>

\* Add / Remove, lines 438 and 463: the call, up to announcing backendsMtx.Lock().
MutCall(p) ==
    /\ pc[p] = "idle"
    /\ CanLockAnnounce(backendsMtx)
    /\ \E kind \in {"Add", "Remove"}, names \in CHArgLists :
        /\ opKind' = [opKind EXCEPT ![p] = kind]
        /\ opArgs' = [opArgs EXCEPT ![p] = names]
    /\ backendsMtx' = LockAnnounce(backendsMtx, p)
    /\ pc' = [pc EXCEPT ![p] = "m_lwait"]
    /\ UNCHANGED <<thVars, hmVars, chConst, chBackends, lookup, lookupMtx, opKey, ret, hMem, chLocals>>

\* Add lines 440-451 / Remove lines 465-467, under the exclusive membership lock.
MutUpdate(p) ==
    /\ pc[p] = "m_lwait"
    /\ LockHeld(backendsMtx, p)
    /\ chBackends' = IF opKind[p] = "Add" THEN AddAll(chBackends, opArgs[p], 1)
                                         ELSE RemoveAll(chBackends, opArgs[p])
    /\ opArgs' = [opArgs EXCEPT ![p] = <<>>]
    /\ pc' = [pc EXCEPT ![p] = "m_unlock"]
    /\ UNCHANGED <<thVars, hmVars, chConst, lookup, backendsMtx, lookupMtx, opKind, opKey,
                   ret, hMem, chLocals>>

\* Lines 453 / 469: c.backendsMtx.Unlock().
MutUnlock(p) ==
    /\ pc[p] = "m_unlock"
    /\ backendsMtx' = Unlock(backendsMtx, p)
    /\ pc' = [pc EXCEPT ![p] = "m_rlock"]
    /\ UNCHANGED <<thVars, hmVars, chConst, chBackends, lookup, lookupMtx, opKind, opArgs, opKey,
                   ret, hMem, chLocals>>

\* Lines 454 / 470: c.backendsMtx.RLock() is called.
MutRLock(p) ==
    /\ pc[p] = "m_rlock"
    /\ backendsMtx' = RLock(backendsMtx, p)
    /\ pc' = [pc EXCEPT ![p] = "m_rwait"]
    /\ UNCHANGED <<thVars, hmVars, chConst, chBackends, lookup, lookupMtx, opKind, opArgs, opKey,
                   ret, hMem, chLocals>>

\* Lines 456 / 472: with the read lock held, c.lookupMtx.Lock() announces itself.
MutLookupLock(p) ==
    /\ pc[p] = "m_rwait"
    /\ RLockHeld(backendsMtx, p)
    /\ CanLockAnnounce(lookupMtx)
    /\ lookupMtx' = LockAnnounce(lookupMtx, p)
    /\ pc' = [pc EXCEPT ![p] = "c_lwait"]
    /\ UNCHANGED <<thVars, hmVars, chConst, chBackends, lookup, backendsMtx, opKind, opArgs, opKey,
                   ret, hMem, chLocals>>

\* computeLookupTable, lines 504-517, entered once lookupMtx.Lock() holds.
ComputeInit(p) ==
    /\ pc[p] = "c_lwait"
    /\ LockHeld(lookupMtx, p)
    /\ lookup' = MakeSlice(size, "")
    /\ cNext' = [cNext EXCEPT ![p] = MakeSlice(Cardinality(DOMAIN chBackends), 0)]
    /\ cEntry' = [cEntry EXCEPT ![p] = MakeSlice(size, -1)]
    /\ \E s \in getBackendsAsSlice : cSlice' = [cSlice EXCEPT ![p] = s]
    /\ cN' = [cN EXCEPT ![p] = 0]
    /\ cI' = [cI EXCEPT ![p] = 0]
    /\ pc' = [pc EXCEPT ![p] = "c_loop"]
    /\ UNCHANGED <<thVars, hmVars, chConst, chBackends, backendsMtx, lookupMtx, opKind, opArgs,
                   opKey, ret, hMem>>

\* computeLookupTable, lines 518-539: one pass of the body of the inner loop.
\* With no backends the inner loop has no pass and the outer loop never ends,
\* and with no free candidate the search of lines 524-527 never ends: in both
\* cases the goroutine stays here, holding its locks.
ComputeStep(p) ==
    /\ pc[p] = "c_loop"
    /\ SliceLen(cSlice[p]) > 0
    /\ LET i == cI[p]
           name == cSlice[p][i]
           j == NextFree(cEntry[p], name, cNext[p][i], Uint32Mod)
           candidate == permutationAt(name, j)
           n == (cN[p] + 1) % Uint32Mod
       IN  /\ j >= 0
           /\ cEntry' = [cEntry EXCEPT ![p][candidate] = i]
           /\ lookup' = [lookup EXCEPT ![candidate] = name]
           /\ cNext' = [cNext EXCEPT ![p][i] = (j + 1) % Uint32Mod]
           /\ cN' = [cN EXCEPT ![p] = n]
           /\ IF LookupFull(n)
                 THEN /\ pc' = [pc EXCEPT ![p] = AfterCompute(p)]
                      /\ cI' = cI
                 ELSE /\ pc' = pc
                      /\ cI' = [cI EXCEPT ![p] = NextIndex(i, SliceLen(cSlice[p]))]
    /\ UNCHANGED <<thVars, hmVars, chConst, chBackends, backendsMtx, lookupMtx, opKind, opArgs,
                   opKey, ret, hMem, cSlice>>

\* Deferred c.lookupMtx.Unlock() of Add / Remove.
MutLookupUnlock(p) ==
    /\ pc[p] = "m_lunlock"
    /\ lookupMtx' = Unlock(lookupMtx, p)
    /\ pc' = [pc EXCEPT ![p] = "m_runlock"]
    /\ UNCHANGED <<thVars, hmVars, chConst, chBackends, lookup, backendsMtx, opKind, opArgs, opKey,
                   ret, hMem, chLocals>>

\* Deferred c.backendsMtx.RUnlock() of Add / Remove; the call returns.
MutReturn(p) ==
    /\ pc[p] = "m_runlock"
    /\ backendsMtx' = RUnlock(backendsMtx, p)
    /\ pc' = [pc EXCEPT ![p] = "idle"]
    /\ opKind' = [opKind EXCEPT ![p] = None]
    /\ cSlice' = [cSlice EXCEPT ![p] = <<>>]
    /\ cNext' = [cNext EXCEPT ![p] = <<>>]
    /\ cEntry' = [cEntry EXCEPT ![p] = <<>>]
    /\ cN' = [cN EXCEPT ![p] = 0]
    /\ cI' = [cI EXCEPT ![p] = 0]
    /\ UNCHANGED <<thVars, hmVars, chConst, chBackends, lookup, lookupMtx, opArgs, opKey, ret, hMem>>


\* Hash, line 480: c.backendsMtx.RLock() is called.
HashCall(p) ==
    /\ pc[p] = "idle"
    /\ \E key \in CHKeys : opKey' = [opKey EXCEPT ![p] = key]
    /\ opKind' = [opKind EXCEPT ![p] = "Hash"]
    /\ backendsMtx' = RLock(backendsMtx, p)
    /\ pc' = [pc EXCEPT ![p] = "h_rwait"]
    /\ UNCHANGED <<thVars, hmVars, chConst, chBackends, lookup, lookupMtx, opArgs, ret, hMem, chLocals>>

\* Hash, lines 483-487: with the read lock held, len(c.backends) is read; an
\* empty map returns "", otherwise c.lookupMtx.RLock() is called.
HashCheckBackends(p) ==
    /\ pc[p] = "h_rwait"
    /\ RLockHeld(backendsMtx, p)
    /\ hMem' = [hMem EXCEPT ![p] = DOMAIN chBackends]
    /\ IF Cardinality(DOMAIN chBackends) = 0
          THEN /\ ret' = [ret EXCEPT ![p] = ""]
               /\ pc' = [pc EXCEPT ![p] = "h_runlock"]
               /\ lookupMtx' = lookupMtx
          ELSE /\ ret' = ret
               /\ pc' = [pc EXCEPT ![p] = "h_lrwait"]
               /\ lookupMtx' = RLock(lookupMtx, p)
    /\ UNCHANGED <<thVars, hmVars, chConst, chBackends, lookup, backendsMtx, opKind, opArgs, opKey,
                   chLocals>>

\* Hash, line 488: the table has its full length.
LookupReady == SliceLen(lookup) = size

\* Hash, line 496: the slot of the key.
HashSlot(key) == lookup[key % size]

\* A Hash that goes on to read the table without waiting for the shared lock.
HashReadsUnlocked(p) == TRUE

\* Hash, line 487: c.lookupMtx.RLock() has returned.
HashHoldsLookup(p) == RLockHeld(lookupMtx, p)

\* A cold path that keeps its shared lookup lock while it asks for the
\* exclusive one.
ColdPathKeepsRLock(m, p) == m
\* Hash, line 489: c.lookupMtx.RUnlock() before c.lookupMtx.Lock().
ColdPathRUnlock(m, p) == RUnlock(m, p)

\* Hash, lines 488-496, with the shared lookup lock held: a table of the wrong
\* length releases the shared lock (cold path); otherwise the slot is read.
HashCheckLookup(p) ==
    /\ pc[p] = "h_lrwait"
    /\ HashHoldsLookup(p)
    /\ IF ~LookupReady
          THEN /\ lookupMtx' = ColdPathRUnlock(lookupMtx, p)
               /\ pc' = [pc EXCEPT ![p] = "h_llock"]
               /\ ret' = ret
          ELSE /\ lookupMtx' = lookupMtx
               /\ pc' = [pc EXCEPT ![p] = "h_lrunlock"]
               /\ ret' = [ret EXCEPT ![p] = HashSlot(opKey[p])]
    /\ UNCHANGED <<thVars, hmVars, chConst, chBackends, lookup, backendsMtx, opKind, opArgs, opKey,
                   hMem, chLocals>>

\* Hash, line 490 (cold path): c.lookupMtx.Lock() announces itself.
HashLookupLock(p) ==
    /\ pc[p] = "h_llock"
    /\ CanLockAnnounce(lookupMtx)
    /\ lookupMtx' = LockAnnounce(lookupMtx, p)
    /\ pc' = [pc EXCEPT ![p] = "c_lwait"]
    /\ UNCHANGED <<thVars, hmVars, chConst, chBackends, lookup, backendsMtx, opKind, opArgs, opKey,
                   ret, hMem, chLocals>>

\* Hash, line 496 after the cold path's computeLookupTable.
HashReadCold(p) ==
    /\ pc[p] = "h_read"
    /\ ret' = [ret EXCEPT ![p] = HashSlot(opKey[p])]
    /\ pc' = [pc EXCEPT ![p] = "h_lunlock"]
    /\ UNCHANGED <<thVars, hmVars, chConst, chBackends, lookup, backendsMtx, lookupMtx, opKind,
                   opArgs, opKey, hMem, chLocals>>

\* Hash, deferred unlock of the lookup lock: Unlock on the cold path (line 491),
\* RUnlock on the fast path (line 494).
HashLookupUnlock(p) ==
    /\ \/ /\ pc[p] = "h_lunlock"
          /\ lookupMtx' = Unlock(lookupMtx, p)
       \/ /\ pc[p] = "h_lrunlock"
          /\ lookupMtx' = RUnlock(lookupMtx, p)
    /\ pc' = [pc EXCEPT ![p] = "h_runlock"]
    /\ UNCHANGED <<thVars, hmVars, chConst, chBackends, lookup, backendsMtx, opKind, opArgs, opKey,
                   ret, hMem, chLocals>>

\* Hash, deferred c.backendsMtx.RUnlock() (line 481); the call returns ret.
HashReturn(p) ==
    /\ pc[p] = "h_runlock"
    /\ backendsMtx' = RUnlock(backendsMtx, p)
    /\ pc' = [pc EXCEPT ![p] = "idle"]
    /\ opKind' = [opKind EXCEPT ![p] = None]
    /\ opKey' = [opKey EXCEPT ![p] = 0]
    /\ ret' = [ret EXCEPT ![p] = None]
    /\ hMem' = [hMem EXCEPT ![p] = {}]
    /\ cSlice' = [cSlice EXCEPT ![p] = <<>>]
    /\ cNext' = [cNext EXCEPT ![p] = <<>>]
    /\ cEntry' = [cEntry EXCEPT ![p] = <<>>]
    /\ cN' = [cN EXCEPT ![p] = 0]
    /\ cI' = [cI EXCEPT ![p] = 0]
    /\ UNCHANGED <<thVars, hmVars, chConst, chBackends, lookup, lookupMtx, opArgs>>

\* ===================================================== package health_monitor
HMNames == {"b1", "b2"}
\* The goroutines that call the monitor's API, and the ticker goroutine.
HMClients == {"c1", "c2"}
\* c1 adds and removes backends while c2, which owns the monitor, starts and
\* stops it.
HMCallers == {"c1"}
HMOwner == "c2"
Ticker == "ticker"
\* A nil *time.Time (the JSON null timestamp of a notification).
Null == "null"
\* The panics of the Go runtime that the monitor's code can raise.
NilDeref == "invalid memory address or nil pointer dereference"
SendOnClosed == "send on closed channel"
CloseOfClosed == "close of closed channel"

\* Defaults of Config (struct tags), durations in seconds.
DefaultUnhealthyThreshold == 3
DefaultHealthyThreshold == 2
DefaultInterval == 30
DefaultTimeout == 5
\* Capacity of each notification channel.
ChanCap == 1

\* defaults.Set on one field: a field holding its zero value takes the default
\* of its struct tag, any other value is kept.
SetDefault(v, zero, d) == IF v = zero THEN d ELSE v

\* time.Duration is a signed integer (int64 in Go, DurWidth bits here): a
\* product wraps around, and a quotient is cut towards zero.
DurMod == 2 ^ DurWidth
WrapDur(x) == ((x + DurMod \div 2) % DurMod) - DurMod \div 2
TruncDiv(a, b) == IF a >= 0 THEN a \div b ELSE -((-a) \div b)

\* cfg.Interval*2/3, lines 87-102 and 218-224.
TwoThirds(interval) == TruncDiv(WrapDur(interval * 2), 3)

\* Timeouts above 2/3 of the interval are cut down to it.
ClampNever(t, interval) == t
ClampTimeout(t, interval) ==
    IF t > TwoThirds(interval) THEN TwoThirds(interval) ELSE t

\* ---- backend configurations handed to Add and pre-loaded in Config.Backends.
\* Protocol and AcceptStatusCodes only decide how a probe is made; the result
\* of a probe is left open in ProbeRun, so they are not carried.
CfgB1 == [Name |-> "b1", Url |-> "u1", Timeout |-> 0,
          UnhealthyThreshold |-> 0, HealthyThreshold |-> 0]
CfgB2 == [Name |-> "b2", Url |-> "u2", Timeout |-> 9,
          UnhealthyThreshold |-> 1, HealthyThreshold |-> 2]
CfgNoName == [Name |-> "", Url |-> "u1", Timeout |-> 0,
              UnhealthyThreshold |-> 0, HealthyThreshold |-> 0]
CfgNoUrl == [Name |-> "b2", Url |-> "", Timeout |-> 0,
             UnhealthyThreshold |-> 0, HealthyThreshold |-> 0]
HMCatalogue == {CfgB1, CfgB2, CfgNoName, CfgNoUrl}

\* Argument lists of the monitor's Add and Remove, up to MaxHMBatch long.
HMBatches == UNION {[1 .. n -> HMCatalogue] : n \in 0 .. MaxHMBatch}
HMNameLists == UNION {[1 .. n -> HMNames] : n \in 0 .. MaxHMBatch}

\* The options handed to NewHealthMonitor (WithConfig and the With.. options
\* write these fields before defaults.Set runs): the pre-loaded backends and
\* the two thresholds range over the sets given, the channels over every
\* combination.
HMOptions(preloads, unhealthy, healthy) ==
    [Backends : preloads,
     UnhealthyThreshold : unhealthy,
     HealthyThreshold : healthy,
     Interval : {4},
     Timeout : {0},
     HealthyInitially : BOOLEAN,
     EnableHealthyChannel : BOOLEAN,
     EnableUnhealthyChannel : BOOLEAN]

\* NewHealthMonitor: options, then defaults.Set, then the timeout clamps. A
\* bool is zero when false, so defaults.Set turns HealthyInitially = false
\* into its default "true"; the two Enable.. flags default to "false" and keep
\* what the options wrote.
ConfigDefaults(o) ==
    [o EXCEPT !.UnhealthyThreshold = SetDefault(@, 0, DefaultUnhealthyThreshold),
              !.HealthyThreshold = SetDefault(@, 0, DefaultHealthyThreshold),
              !.Interval = SetDefault(@, 0, DefaultInterval),
              !.Timeout = SetDefault(@, 0, DefaultTimeout),
              !.HealthyInitially = SetDefault(@, FALSE, TRUE),
              !.EnableHealthyChannel = SetDefault(@, FALSE, FALSE),
              !.EnableUnhealthyChannel = SetDefault(@, FALSE, FALSE)]

NewConfig(o) ==
    LET d == ConfigDefaults(o)
    IN  [d EXCEPT !.Timeout = ClampTimeout(@, d.Interval),
                  !.Backends = [i \in DOMAIN @ |->
                      [@[i] EXCEPT !.Timeout = ClampTimeout(@, d.Interval)]]]

\* newOutputChannels: a channel of capacity 1 for each enabled direction. A
\* disabled direction has a nil channel, which nothing sends on or closes.
NewChan == [buf |-> <<>>, closed |-> FALSE]

\* A client goroutine with no call in progress.
NoCall == [kind |-> None, cfgs |-> <<>>, names |-> <<>>, k |-> 0,
           reg |-> {}, sent |-> <<>>]

NewHealthMonitor(o) ==
    /\ opts = o
    /\ cfg = NewConfig(o)
    /\ hmBackends = <<>>
    /\ hmBackendsMtx = NewRWMutex
    /\ healthyChan = NewChan
    /\ unhealthyChan = NewChan
    /\ ctxDone = FALSE
    /\ tickerStopped = FALSE
    /\ tk = "off"
    /\ probe = <<>>
    /\ lastChecked = 0
    /\ hpc = [c \in HMClients |-> "idle"]
    /\ cl = [c \in HMClients |-> NoCall]
    /\ hret = [c \in HMClients |-> None]
    /\ hfault = [c \in HMClients |-> None]
    /\ started = FALSE
    /\ stopCalled = FALSE
    /\ consec = <<>>

\* ---- Backend (its methods are described in the specification, section 4.3)
NewBackend(beCfg) ==
    [Cfg |-> beCfg, healthy |-> cfg.HealthyInitially, statusStreak |-> 0]

\* fail: a positive streak is reset to 0, the streak is decremented, and on
\* reaching -threshold the flag becomes false and the result is "newly".
fail(be, threshold) ==
    LET s == (IF be.statusStreak > 0 THEN 0 ELSE be.statusStreak) - 1
        hit == s = -threshold
    IN  [be |-> [be EXCEPT !.statusStreak = s,
                           !.healthy = IF hit THEN FALSE ELSE @],
         healthy |-> IF hit THEN FALSE ELSE be.healthy,
         newly |-> hit]

\* success: the mirror image of fail.
success(be, threshold) ==
    LET s == (IF be.statusStreak < 0 THEN 0 ELSE be.statusStreak) + 1
        hit == s = threshold
    IN  [be |-> [be EXCEPT !.statusStreak = s,
                           !.healthy = IF hit THEN TRUE ELSE @],
         healthy |-> IF hit THEN TRUE ELSE be.healthy,
         newly |-> hit]

\* toNoti: the notification of a backend's present state, stamped with the
\* time given or with now; indefinite() is the nil timestamp.
Now == "now"
indefinite == Null
toNoti(be, ts) ==
    [url |-> be.Cfg.Url, name |-> be.Cfg.Name, healthy |-> be.healthy,
     timestamp |-> ts]

\* ---- channel sends (outputChannels.sendHealthy / sendUnhealthy)
ChanOf(healthy) == IF healthy THEN healthyChan ELSE unhealthyChan
EnabledOf(healthy) ==
    IF healthy THEN cfg.EnableHealthyChannel ELSE cfg.EnableUnhealthyChannel
\* The send waits: the channel is open and its buffer is full.
SendBlocks(healthy) ==
    /\ EnabledOf(healthy)
    /\ ~ChanOf(healthy).closed
    /\ Len(ChanOf(healthy).buf) >= ChanCap
\* The send panics: the channel is closed.
SendPanics(healthy) == EnabledOf(healthy) /\ ChanOf(healthy).closed
\* The channel after a send that neither waits nor panics.
SendOn(ch, enabled, noti) ==
    IF enabled THEN [ch EXCEPT !.buf = Append(@, noti)] ELSE ch
\* Both channels after sendHealthy(noti) / sendUnhealthy(noti).
Send(healthy, noti) ==
    /\ healthyChan' = SendOn(healthyChan, healthy /\ cfg.EnableHealthyChannel, noti)
    /\ unhealthyChan' =
           SendOn(unhealthyChan, ~healthy /\ cfg.EnableUnhealthyChannel, noti)

\* map insert and delete
MapPut(m, k, v) == [x \in DOMAIN m \cup {k} |-> IF x = k THEN v ELSE m[x]]
\* A delete that is forgotten.
MapDeleteForgotten(m, k) == m
MapDelete(m, k) == [x \in DOMAIN m \ {k} |-> m[x]]

\* ---- Add (lines 203-268), and Start's call of it (lines 129-142)
\* First empty-name or empty-URL config of the batch, 0 when there is none.
RECURSIVE FirstInvalid(_, _)
FirstWithoutName(cfgs, i) ==
    IF i > Len(cfgs) THEN 0
    ELSE IF cfgs[i].Name = "" THEN i
    ELSE FirstInvalid(cfgs, i + 1)
FirstInvalid(cfgs, i) ==
    IF i > Len(cfgs) THEN 0
    ELSE IF cfgs[i].Name = "" \/ cfgs[i].Url = "" THEN i
    ELSE FirstInvalid(cfgs, i + 1)

\* Lines 217-236: the timeout clamp and the values inherited from the monitor.
Normalize(beCfg) ==
    [beCfg EXCEPT
        !.Timeout = IF @ > TwoThirds(cfg.Interval) THEN TwoThirds(cfg.Interval)
                    ELSE IF @ = 0 THEN cfg.Timeout ELSE @,
        !.UnhealthyThreshold = IF @ = 0 THEN cfg.UnhealthyThreshold ELSE @,
        !.HealthyThreshold = IF @ = 0 THEN cfg.HealthyThreshold ELSE @]

\* A call ends: the goroutine is idle again with the call's result.
Return(c, result) ==
    /\ hpc' = [hpc EXCEPT ![c] = "idle"]
    /\ cl' = [cl EXCEPT ![c] = NoCall]
    /\ hret' = [hret EXCEPT ![c] = result]

\* A panic that nothing recovers: the goroutine stops where it is, and the Go
\* runtime ends the program with it.
Panic(c, what) ==
    /\ hpc' = [hpc EXCEPT ![c] = "panicked"]
    /\ hfault' = [hfault EXCEPT ![c] = what]
    /\ UNCHANGED <<cl, hret>>

\* The program runs: no goroutine has ended it with a panic.
HMRunning ==
    /\ \A c \in HMClients : hpc[c] # "panicked"
    /\ \A n \in DOMAIN probe : probe[n].st # "panicked"

\* The validation loop, lines 204-237, on the configs of the call: it reads
\* the monitor's configuration and writes the caller's configs only, so the
\* call and its validation are one step. An error from Add ends Start too.
Validate(c, kind, batch) ==
    IF FirstInvalid(batch, 1) # 0
    THEN Return(c, "error")
    ELSE /\ cl' = [cl EXCEPT ![c] =
                      [NoCall EXCEPT !.kind = kind,
                                     !.cfgs = [i \in DOMAIN batch |-> Normalize(batch[i])],
                                     !.k = 1]]
         /\ hpc' = [hpc EXCEPT ![c] = "a_lock"]
         /\ hret' = [hret EXCEPT ![c] = None]

AddCall(c) ==
    /\ HMRunning
    /\ hpc[c] = "idle"
    /\ \E batch \in HMBatches : Validate(c, "Add", batch)
    /\ UNCHANGED <<thVars, chVars, hmConst, hmBackends, hmBackendsMtx, healthyChan, unhealthyChan,
                   ctxDone, tickerStopped, tk, probe, lastChecked, hfault, started,
                   stopCalled, consec>>

\* h.backendsMtx.Lock(), line 239.
AddLock(c) ==
    /\ HMRunning
    /\ hpc[c] = "a_lock"
    /\ CanLockAnnounce(hmBackendsMtx)
    /\ hmBackendsMtx' = LockAnnounce(hmBackendsMtx, c)
    /\ hpc' = [hpc EXCEPT ![c] = "a_loop"]
    /\ UNCHANGED <<thVars, chVars, hmConst, hmBackends, healthyChan, unhealthyChan, ctxDone,
                   tickerStopped, tk, probe, lastChecked, cl, hret, hfault, started,
                   stopCalled, consec>>

\* backend, ok := h.backends[beCfg.Name], line 244.
AlreadyExistsNever(name) == FALSE
AlreadyExists(name) == name \in DOMAIN hmBackends

\* One round of the loop of lines 242-265 up to its send, or the return of
\* line 267 with the deferred Unlock. Start goes on to spawn the ticker.
AddLoop(c) ==
    /\ HMRunning
    /\ hpc[c] = "a_loop"
    /\ LockHeld(hmBackendsMtx, c)
    /\ LET k == cl[c].k
           cfgs == cl[c].cfgs
       IN  IF k > Len(cfgs)
           THEN /\ hmBackendsMtx' = Unlock(hmBackendsMtx, c)
                /\ IF cl[c].kind = "Start"
                   THEN /\ hpc' = [hpc EXCEPT ![c] = "st_spawn"]
                        /\ UNCHANGED <<cl, hret>>
                   ELSE Return(c, "ok")
                /\ UNCHANGED <<hmBackends, consec>>
           ELSE IF AlreadyExists(cfgs[k].Name)
           THEN /\ cl' = [cl EXCEPT ![c].k = k + 1]
                /\ UNCHANGED <<hmBackends, consec, hmBackendsMtx, hpc, hret>>
           ELSE /\ hmBackends' = MapPut(hmBackends, cfgs[k].Name, NewBackend(cfgs[k]))
                /\ consec' = MapPut(consec, cfgs[k].Name, 0)
                /\ hpc' = [hpc EXCEPT ![c] = "a_send"]
                /\ UNCHANGED <<hmBackendsMtx, cl, hret>>
    /\ UNCHANGED <<thVars, chVars, hmConst, healthyChan, unhealthyChan, ctxDone, tickerStopped, tk,
                   probe, lastChecked, hfault, started, stopCalled>>

\* The send of the initial notification, lines 260-264. On a closed channel
\* it panics: the deferred Unlock runs, and Start's deferred recover turns the
\* panic into the error Start returns.
AddSend(c) ==
    /\ HMRunning
    /\ hpc[c] = "a_send"
    /\ LET be == hmBackends[cl[c].cfgs[cl[c].k].Name]
       IN  /\ ~SendBlocks(be.healthy)
           /\ IF SendPanics(be.healthy)
              THEN /\ hmBackendsMtx' = Unlock(hmBackendsMtx, c)
                   /\ IF cl[c].kind = "Start"
                      THEN Return(c, "error") /\ UNCHANGED hfault
                      ELSE Panic(c, SendOnClosed)
                   /\ UNCHANGED <<healthyChan, unhealthyChan>>
              ELSE /\ Send(be.healthy, toNoti(be, Now))
                   /\ cl' = [cl EXCEPT ![c].k = @ + 1]
                   /\ hpc' = [hpc EXCEPT ![c] = "a_loop"]
                   /\ UNCHANGED <<hmBackendsMtx, hret, hfault>>
    /\ UNCHANGED <<thVars, chVars, hmConst, hmBackends, ctxDone, tickerStopped, tk, probe,
                   lastChecked, started, stopCalled, consec>>

\* ---- Start (lines 118-184), called once
StartCall(c) ==
    /\ HMRunning
    /\ hpc[c] = "idle"
    /\ ~started
    /\ started' = TRUE
    /\ IF Len(cfg.Backends) > 0
       THEN Validate(c, "Start", cfg.Backends)
       ELSE /\ cl' = [cl EXCEPT ![c] = [NoCall EXCEPT !.kind = "Start"]]
            /\ hpc' = [hpc EXCEPT ![c] = "st_spawn"]
            /\ hret' = [hret EXCEPT ![c] = None]
    /\ UNCHANGED <<thVars, chVars, hmConst, hmBackends, hmBackendsMtx, healthyChan, unhealthyChan,
                   ctxDone, tickerStopped, tk, probe, lastChecked, hfault, stopCalled,
                   consec>>

\* go func() { ... }(), line 148, and return nil.
StartSpawn(c) ==
    /\ HMRunning
    /\ hpc[c] = "st_spawn"
    /\ tk' = "select"
    /\ Return(c, "ok")
    /\ UNCHANGED <<thVars, chVars, hmConst, hmBackends, hmBackendsMtx, healthyChan, unhealthyChan,
                   ctxDone, tickerStopped, probe, lastChecked, hfault, started,
                   stopCalled, consec>>

\* ---- Remove (lines 270-286)
RemoveCall(c) ==
    /\ HMRunning
    /\ hpc[c] = "idle"
    /\ CanLockAnnounce(hmBackendsMtx)
    /\ \E names \in HMNameLists :
           cl' = [cl EXCEPT ![c] = [NoCall EXCEPT !.kind = "Remove", !.names = names, !.k = 1]]
    /\ hmBackendsMtx' = LockAnnounce(hmBackendsMtx, c)
    /\ hpc' = [hpc EXCEPT ![c] = "r_lwait"]
    /\ hret' = [hret EXCEPT ![c] = None]
    /\ UNCHANGED <<thVars, chVars, hmConst, hmBackends, healthyChan, unhealthyChan, ctxDone,
                   tickerStopped, tk, probe, lastChecked, hfault, started, stopCalled,
                   consec>>

\* Lock() returns. reg keeps the names of the call that are registered now.
RemoveLocked(c) ==
    /\ HMRunning
    /\ hpc[c] = "r_lwait"
    /\ LockHeld(hmBackendsMtx, c)
    /\ cl' = [cl EXCEPT ![c].reg =
                 {cl[c].names[i] : i \in DOMAIN cl[c].names} \cap DOMAIN hmBackends]
    /\ hpc' = [hpc EXCEPT ![c] = "r_loop"]
    /\ UNCHANGED <<thVars, chVars, hmConst, hmBackends, hmBackendsMtx, healthyChan, unhealthyChan,
                   ctxDone, tickerStopped, tk, probe, lastChecked, hret, hfault, started,
                   stopCalled, consec>>

\* The lookup of lines 274-275. For a name that is not in the map, backend is
\* nil and the log call of lines 276-279 reads backend.Cfg: a nil pointer
\* dereference. The deferred Unlock runs while the panic unwinds.
RemoveLoop(c) ==
    /\ HMRunning
    /\ hpc[c] = "r_loop"
    /\ LET k == cl[c].k
           names == cl[c].names
       IN  IF k > Len(names)
           THEN /\ hmBackendsMtx' = Unlock(hmBackendsMtx, c)
                /\ Return(c, "ok")
                /\ UNCHANGED hfault
           ELSE IF names[k] \notin DOMAIN hmBackends
           THEN /\ hmBackendsMtx' = Unlock(hmBackendsMtx, c)
                /\ Panic(c, NilDeref)
           ELSE /\ hpc' = [hpc EXCEPT ![c] = "r_send"]
                /\ UNCHANGED <<hmBackendsMtx, cl, hret, hfault>>
    /\ UNCHANGED <<thVars, chVars, hmConst, hmBackends, healthyChan, unhealthyChan, ctxDone,
                   tickerStopped, tk, probe, lastChecked, started, stopCalled, consec>>

\* sendUnhealthy(backend.toNoti(indefinite())), line 282. sent keeps what
\* this call has put on the channel.
RemoveSend(c) ==
    /\ HMRunning
    /\ hpc[c] = "r_send"
    /\ ~SendBlocks(FALSE)
    /\ LET be == hmBackends[cl[c].names[cl[c].k]]
           noti == toNoti(be, indefinite)
       IN  IF SendPanics(FALSE)
           THEN /\ hmBackendsMtx' = Unlock(hmBackendsMtx, c)
                /\ Panic(c, SendOnClosed)
                /\ UNCHANGED <<healthyChan, unhealthyChan>>
           ELSE /\ Send(FALSE, noti)
                /\ cl' = [cl EXCEPT ![c].sent =
                             IF cfg.EnableUnhealthyChannel THEN Append(@, noti) ELSE @]
                /\ hpc' = [hpc EXCEPT ![c] = "r_delete"]
                /\ UNCHANGED <<hmBackendsMtx, hret, hfault>>
    /\ UNCHANGED <<thVars, chVars, hmConst, hmBackends, ctxDone, tickerStopped, tk, probe,
                   lastChecked, started, stopCalled, consec>>

\* delete(h.backends, backend.Cfg.Name), line 283.
RemoveDelete(c) ==
    /\ HMRunning
    /\ hpc[c] = "r_delete"
    /\ LET be == hmBackends[cl[c].names[cl[c].k]]
       IN  /\ hmBackends' = MapDelete(hmBackends, be.Cfg.Name)
           /\ consec' = MapDelete(consec, be.Cfg.Name)
    /\ cl' = [cl EXCEPT ![c].k = @ + 1]
    /\ hpc' = [hpc EXCEPT ![c] = "r_loop"]
    /\ UNCHANGED <<thVars, chVars, hmConst, hmBackendsMtx, healthyChan, unhealthyChan, ctxDone,
                   tickerStopped, tk, probe, lastChecked, hret, hfault, started,
                   stopCalled>>

\* ---- IsHealthy (lines 193-201)
BoolStr(b) == IF b THEN "true" ELSE "false"

\* h.backendsMtx.RLock(), line 194: admitted at once, or queued behind an
\* announced writer.
IsHealthyCall(c) ==
    /\ HMRunning
    /\ hpc[c] = "idle"
    /\ \E name \in HMNames :
           cl' = [cl EXCEPT ![c] = [NoCall EXCEPT !.kind = "IsHealthy", !.names = <<name>>]]
    /\ hmBackendsMtx' = RLock(hmBackendsMtx, c)
    /\ hpc' = [hpc EXCEPT ![c] = "i_rwait"]
    /\ hret' = [hret EXCEPT ![c] = None]
    /\ UNCHANGED <<thVars, chVars, hmConst, hmBackends, healthyChan, unhealthyChan, ctxDone,
                   tickerStopped, tk, probe, lastChecked, hfault, started, stopCalled,
                   consec>>

\* Lines 197-200, with the read lock held: the flag of the backend, or false
\* for a name that is not in the map, is the value to return.
IsHealthyUnlocked(c) == TRUE
IsHealthyLocked(c) == RLockHeld(hmBackendsMtx, c)
IsHealthyRead(c) ==
    /\ HMRunning
    /\ hpc[c] = "i_rwait"
    /\ IsHealthyLocked(c)
    /\ LET name == cl[c].names[1]
       IN  hret' = [hret EXCEPT ![c] =
                       IF name \in DOMAIN hmBackends
                       THEN BoolStr(hmBackends[name].healthy)
                       ELSE BoolStr(FALSE)]
    /\ hpc' = [hpc EXCEPT ![c] = "i_runlock"]
    /\ UNCHANGED <<thVars, chVars, hmConst, hmBackends, hmBackendsMtx, healthyChan, unhealthyChan,
                   ctxDone, tickerStopped, tk, probe, lastChecked, cl, hfault, started,
                   stopCalled, consec>>

\* The deferred RUnlock, line 195, and the return.
IsHealthyReturn(c) ==
    /\ HMRunning
    /\ hpc[c] = "i_runlock"
    /\ hmBackendsMtx' = RUnlock(hmBackendsMtx, c)
    /\ hpc' = [hpc EXCEPT ![c] = "idle"]
    /\ cl' = [cl EXCEPT ![c] = NoCall]
    /\ UNCHANGED <<thVars, chVars, hmConst, hmBackends, healthyChan, unhealthyChan, ctxDone,
                   tickerStopped, tk, probe, lastChecked, hret, hfault, started,
                   stopCalled, consec>>

\* ---- HealthyChan / UnhealthyChan (lines 288-294 and 408-420)
ErrChannelNotEnabled == "channel not enabled"

\* The result of healthyChannel() / unhealthyChannel(): the channel, or the
\* error. cl keeps which of the two was asked for.
ChannelAlways(enabled, ch) == ch
ChannelOrError(enabled, ch) == IF enabled THEN ch ELSE ErrChannelNotEnabled

HealthyChan(c) ==
    /\ HMRunning
    /\ hpc[c] = "idle"
    /\ cl' = [cl EXCEPT ![c] = [NoCall EXCEPT !.kind = "HealthyChan"]]
    /\ hret' = [hret EXCEPT ![c] = ChannelOrError(cfg.EnableHealthyChannel, "healthyChan")]
    /\ UNCHANGED <<thVars, chVars, hmConst, hmBackends, hmBackendsMtx, healthyChan, unhealthyChan,
                   ctxDone, tickerStopped, tk, probe, lastChecked, hpc, hfault, started,
                   stopCalled, consec>>

UnhealthyChan(c) ==
    /\ HMRunning
    /\ hpc[c] = "idle"
    /\ cl' = [cl EXCEPT ![c] = [NoCall EXCEPT !.kind = "UnhealthyChan"]]
    /\ hret' = [hret EXCEPT ![c] =
                    ChannelOrError(cfg.EnableUnhealthyChannel, "unhealthyChan")]
    /\ UNCHANGED <<thVars, chVars, hmConst, hmBackends, hmBackendsMtx, healthyChan, unhealthyChan,
                   ctxDone, tickerStopped, tk, probe, lastChecked, hpc, hfault, started,
                   stopCalled, consec>>

\* ---- the ticker goroutine (lines 148-181)
\* case <-ticker.C, line 157: h.lastChecked is written before the lock is
\* taken. Time is counted in ticks; MaxTicks bounds the run.
TickFire ==
    /\ HMRunning
    /\ tk = "select"
    /\ lastChecked < MaxTicks
    /\ lastChecked' = lastChecked + 1
    /\ tk' = "t_lock"
    /\ UNCHANGED <<thVars, chVars, hmConst, hmBackends, hmBackendsMtx, healthyChan, unhealthyChan,
                   ctxDone, tickerStopped, probe, hpc, cl, hret, hfault, started,
                   stopCalled, consec>>

\* h.backendsMtx.Lock(), line 160.
TickLock ==
    /\ HMRunning
    /\ tk = "t_lock"
    /\ CanLockAnnounce(hmBackendsMtx)
    /\ hmBackendsMtx' = LockAnnounce(hmBackendsMtx, Ticker)
    /\ tk' = "t_lwait"
    /\ UNCHANGED <<thVars, chVars, hmConst, hmBackends, healthyChan, unhealthyChan, ctxDone,
                   tickerStopped, probe, lastChecked, hpc, cl, hret, hfault, started,
                   stopCalled, consec>>

\* Lines 161-175: one goroutine per backend of the map.
TickSpawn ==
    /\ HMRunning
    /\ tk = "t_lwait"
    /\ LockHeld(hmBackendsMtx, Ticker)
    /\ probe' = [n \in DOMAIN hmBackends |-> [st |-> "run", healthy |-> FALSE]]
    /\ tk' = "t_wait"
    /\ UNCHANGED <<thVars, chVars, hmConst, hmBackends, hmBackendsMtx, healthyChan, unhealthyChan,
                   ctxDone, tickerStopped, lastChecked, hpc, cl, hret, hfault, started,
                   stopCalled, consec>>

\* healthcheck, lines 316-380. The reply of the backend is open: "ok" (an
\* accepted answer), "err" (an error, a timeout or a refused status) or
\* "panic" (recovered at lines 317-330 into a failure). Every branch counts
\* with the thresholds of the monitor's configuration.
ProbeResults == {"ok", "err", "panic"}
HealthyThresholdAsUnhealthy(be) == cfg.HealthyThreshold
UnhealthyThresholdOf(be) == cfg.UnhealthyThreshold
HealthyThresholdOf(be) == cfg.HealthyThreshold
\* A recovery that counts the panic twice.
RecoveredTwice(be) ==
    fail(fail(be, UnhealthyThresholdOf(be)).be, UnhealthyThresholdOf(be))
\* healthcheck, lines 324-334: the deferred recover marks the check a failure.
Recovered(be) == fail(be, UnhealthyThresholdOf(be))
\* A healthcheck that takes every answer for a success.
healthcheckIgnoresErr(be, reply) == success(be, HealthyThresholdOf(be))
healthcheck(be, reply) ==
    IF reply = "ok" THEN success(be, HealthyThresholdOf(be))
    ELSE IF reply = "panic" THEN Recovered(be)
    ELSE fail(be, UnhealthyThresholdOf(be))

\* consec counts, apart from the monitor's own streak, the probe results of
\* one direction that a backend has had in a row (negative for failures).
Count(n, reply) ==
    IF reply = "ok" THEN (IF n > 0 THEN n + 1 ELSE 1)
    ELSE (IF n < 0 THEN n - 1 ELSE -1)

\* Line 167: the healthcheck of the probe of n, the backend replying reply.
ProbeReply(n, reply) ==
    /\ HMRunning
    /\ n \in DOMAIN probe
    /\ probe[n].st = "run"
    /\ LET r == healthcheck(hmBackends[n], reply)
       IN  /\ hmBackends' = [hmBackends EXCEPT ![n] = r.be]
           /\ consec' = [consec EXCEPT ![n] = Count(@, reply)]
           /\ probe' = [probe EXCEPT ![n] =
                           IF r.newly THEN [st |-> "send", healthy |-> r.healthy]
                           ELSE [st |-> "done", healthy |-> FALSE]]
    /\ UNCHANGED <<thVars, chVars, hmConst, hmBackendsMtx, healthyChan, unhealthyChan, ctxDone,
                   tickerStopped, tk, lastChecked, hpc, cl, hret, hfault, started,
                   stopCalled>>

ProbeRun(n) == \E reply \in ProbeResults : ProbeReply(n, reply)

\* Lines 168-172: the notification of a new state. A panic of this goroutine
\* (a send on a closed channel) is not recovered by anything.
ProbeSend(n) ==
    /\ HMRunning
    /\ n \in DOMAIN probe
    /\ probe[n].st = "send"
    /\ ~SendBlocks(probe[n].healthy)
    /\ IF SendPanics(probe[n].healthy)
       THEN /\ probe' = [probe EXCEPT ![n].st = "panicked"]
            /\ UNCHANGED <<healthyChan, unhealthyChan>>
       ELSE /\ Send(probe[n].healthy, toNoti(hmBackends[n], Now))
            /\ probe' = [probe EXCEPT ![n] = [st |-> "done", healthy |-> FALSE]]
    /\ UNCHANGED <<thVars, chVars, hmConst, hmBackends, hmBackendsMtx, ctxDone, tickerStopped, tk,
                   lastChecked, hpc, cl, hret, hfault, started, stopCalled, consec>>

\* wg.Wait() and Unlock, lines 177-178.
\* A join that does not wait for the probes.
WgWaitSkipped == TRUE
\* wg.Wait(), line 177: every probe goroutine has called wg.Done().
WgWait == \A n \in DOMAIN probe : probe[n].st = "done"

TickJoin ==
    /\ HMRunning
    /\ tk = "t_wait"
    /\ WgWait
    /\ hmBackendsMtx' = Unlock(hmBackendsMtx, Ticker)
    /\ probe' = <<>>
    /\ tk' = "select"
    /\ UNCHANGED <<thVars, chVars, hmConst, hmBackends, healthyChan, unhealthyChan, ctxDone,
                   tickerStopped, lastChecked, hpc, cl, hret, hfault, started,
                   stopCalled, consec>>

\* case <-h.ctx.Done(), line 155, with the deferred close(h.tickerStopped).
TickerExitUnsignalled ==
    /\ HMRunning
    /\ tk = "select"
    /\ ctxDone
    /\ tk' = "exited"
    /\ UNCHANGED <<thVars, chVars, hmConst, hmBackends, hmBackendsMtx, healthyChan, unhealthyChan,
                   ctxDone, tickerStopped, probe, lastChecked, hpc, cl, hret, hfault,
                   started, stopCalled, consec>>
TickerExit ==
    /\ HMRunning
    /\ tk = "select"
    /\ ctxDone
    /\ tk' = "exited"
    /\ tickerStopped' = TRUE
    /\ UNCHANGED <<thVars, chVars, hmConst, hmBackends, hmBackendsMtx, healthyChan, unhealthyChan,
                   ctxDone, probe, lastChecked, hpc, cl, hret, hfault, started,
                   stopCalled, consec>>

\* What Size (lines 296-300) and IsHealthy (lines 193-201) read of the map: the
\* names in it and the healthy flag of each.
Health == [n \in DOMAIN hmBackends |-> hmBackends[n].healthy]

\* ---- Stop (lines 186-191), called once
StopCall(c) ==
    /\ HMRunning
    /\ hpc[c] = "idle"
    /\ ~stopCalled
    /\ stopCalled' = TRUE
    /\ ctxDone' = TRUE
    /\ cl' = [cl EXCEPT ![c] = [NoCall EXCEPT !.kind = "Stop"]]
    /\ hpc' = [hpc EXCEPT ![c] = "s_join"]
    /\ hret' = [hret EXCEPT ![c] = None]
    /\ UNCHANGED <<thVars, chVars, hmConst, hmBackends, hmBackendsMtx, healthyChan, unhealthyChan,
                   tickerStopped, tk, probe, lastChecked, hfault, started, consec>>

\* <-h.tickerStopped, line 189.
StopJoinsAtOnce == TRUE
TickerJoined == tickerStopped
StopJoin(c) ==
    /\ HMRunning
    /\ hpc[c] = "s_join"
    /\ TickerJoined
    /\ hpc' = [hpc EXCEPT ![c] = "s_close"]
    /\ UNCHANGED <<thVars, chVars, hmConst, hmBackends, hmBackendsMtx, healthyChan, unhealthyChan,
                   ctxDone, tickerStopped, tk, probe, lastChecked, cl, hret, hfault,
                   started, stopCalled, consec>>

\* outputChannels.close, lines 422-429: each enabled channel is closed.
CloseChan(ch, enabled) == IF enabled THEN [ch EXCEPT !.closed = TRUE] ELSE ch
StopClose(c) ==
    /\ HMRunning
    /\ hpc[c] = "s_close"
    /\ IF \/ cfg.EnableHealthyChannel /\ healthyChan.closed
          \/ cfg.EnableUnhealthyChannel /\ unhealthyChan.closed
       THEN /\ Panic(c, CloseOfClosed)
            /\ UNCHANGED <<healthyChan, unhealthyChan>>
       ELSE /\ healthyChan' = CloseChan(healthyChan, cfg.EnableHealthyChannel)
            /\ unhealthyChan' = CloseChan(unhealthyChan, cfg.EnableUnhealthyChannel)
            /\ Return(c, "ok")
            /\ UNCHANGED hfault
    /\ UNCHANGED <<thVars, chVars, hmConst, hmBackends, hmBackendsMtx, ctxDone, tickerStopped, tk,
                   probe, lastChecked, started, stopCalled, consec>>

\* ---- the subscribers of the two channels
RecvHealthy ==
    /\ HMRunning
    /\ healthyChan.buf # <<>>
    /\ healthyChan' = [healthyChan EXCEPT !.buf = Tail(@)]
    /\ UNCHANGED <<thVars, chVars, hmConst, hmBackends, hmBackendsMtx, unhealthyChan, ctxDone,
                   tickerStopped, tk, probe, lastChecked, hpc, cl, hret, hfault, started,
                   stopCalled, consec>>

RecvUnhealthy ==
    /\ HMRunning
    /\ unhealthyChan.buf # <<>>
    /\ unhealthyChan' = [unhealthyChan EXCEPT !.buf = Tail(@)]
    /\ UNCHANGED <<thVars, chVars, hmConst, hmBackends, hmBackendsMtx, healthyChan, ctxDone,
                   tickerStopped, tk, probe, lastChecked, hpc, cl, hret, hfault, started,
                   stopCalled, consec>>

\* ========================================================= package tuple_hash
\* A net.IP is its bytes: 4 of them for the short form of an IPv4 address, 16
\* for an IPv6 address or the long form of an IPv4 address, none for nil.

\* net.IP.To16, reached from lines 15 and 18: the 16-byte form; a slice that is
\* neither 4 nor 16 bytes long gives nil.
v4InV6Prefix == <<0, 0, 0, 0, 0, 0, 0, 0, 0, 0, 255, 255>>
To16Raw(ip) == ip
To16(ip) ==
    IF Len(ip) = 4 THEN v4InV6Prefix \o ip
    ELSE IF Len(ip) = 16 THEN ip
    ELSE <<>>

\* binary.BigEndian.PutUint16, lines 23 and 29.
PutUint16(v) == <<v \div 256, v % 256>>

\* Bitwise exclusive or of two unsigned words.
RECURSIVE Xor(_, _)
Xor(a, b) ==
    IF a = 0 THEN b
    ELSE IF b = 0 THEN a
    ELSE ((a + b) % 2) + 2 * Xor(a \div 2, b \div 2)

\* A uint32 is kept as its two 16-bit halves.
Word(hi, lo) == [hi |-> hi, lo |-> lo]
WordXor(v, w) == Word(Xor(v.hi, w.hi), Xor(v.lo, w.lo))
\* v >> k, for k up to 16.
WordShr(v, k) == Word(v.hi \div (2 ^ k), (v.lo \div (2 ^ k)) + (v.hi % (2 ^ k)) * (2 ^ (16 - k)))

\* hash/crc32 with the IEEE polynomial 0xedb88320 (crc32.NewIEEE, line 13).
IEEE == Word(60856, 33568)
WordMax == Word(65535, 65535)

RECURSIVE CrcShift(_, _)
CrcShift(c, k) ==
    LET d == IF c.lo % 2 = 1 THEN WordXor(WordShr(c, 1), IEEE) ELSE WordShr(c, 1)
    IN  IF k = 0 THEN c
        ELSE IF d.lo >= 0 THEN CrcShift(d, k - 1) ELSE d

ieeeTable == [b \in 0 .. 255 |-> CrcShift(Word(0, b), 8)]

\* digest.Write over the bytes from position i on, then Sum32.
RECURSIVE CrcUpdate(_, _, _)
CrcUpdate(crc, bytes, i) ==
    LET d == WordXor(ieeeTable[Xor(crc.lo % 256, bytes[i])], WordShr(crc, 8))
    IN  IF i > Len(bytes) THEN crc
        ELSE IF d.lo >= 0 THEN CrcUpdate(d, bytes, i + 1) ELSE d

Sum32(bytes) == WordXor(CrcUpdate(WordMax, bytes, 1), WordMax)

\* Hash, lines 12-39. hash.Write of a crc32 digest returns no error, so the
\* early returns of lines 15-36 are never taken.
Hash(srcIP, srcPort, dstIP, dstPort, proto) ==
    [sum |-> Sum32(To16(srcIP) \o To16(dstIP) \o PutUint16(srcPort)
                   \o PutUint16(dstPort) \o <<proto>>),
     err |-> "nil"]

\* No call of Hash has been made.
THIdle ==
    /\ thArgs = [srcIP |-> <<>>, srcPort |-> 0, dstIP |-> <<>>, dstPort |-> 0, proto |-> 0]
    /\ thRet = [sum |-> Word(0, 0), err |-> None]

\* The addresses, ports and protocol numbers handed to Hash: IPv4 addresses in
\* the short and in the long form, IPv6 addresses, nil.
THv4 == {<<1, 2, 3, 4>>, <<5, 6, 7, 8>>}
THv6 == {<<32, 1, 13, 184, 0, 0, 0, 0, 0, 0, 0, 0, 0, 0, 0, 1>>}
THAddrs == THv4 \cup {v4InV6Prefix \o a : a \in THv4} \cup THv6 \cup {<<>>}
THPorts == {0, 80, 1000, 65535}
THProtos == {6, 17}
THTuples == [srcIP : THAddrs, srcPort : THPorts, dstIP : THAddrs, dstPort : THPorts,
             proto : THProtos]

\* One call of Hash on the 5-tuple it was handed, from its first line to its
\* return.
TupleHash ==
    /\ thRet.err = None
    /\ thRet' = Hash(thArgs.srcIP, thArgs.srcPort, thArgs.dstIP, thArgs.dstPort,
                     thArgs.proto)
    /\ UNCHANGED <<chVars, hmVars, thArgs>>

\* ------------------------------------------------------- chash: specifications
CHNext ==
    \E p \in CHProcs :
        \/ MutCall(p)
        \/ MutUpdate(p)
        \/ MutUnlock(p)
        \/ MutRLock(p)
        \/ MutLookupLock(p)
        \/ ComputeInit(p)
        \/ ComputeStep(p)
        \/ MutLookupUnlock(p)
        \/ MutReturn(p)
        \/ HashCall(p)
        \/ HashCheckBackends(p)
        \/ HashCheckLookup(p)
        \/ HashLookupLock(p)
        \/ HashReadCold(p)
        \/ HashLookupUnlock(p)
        \/ HashReturn(p)

\* One goroutine calling Add, Remove and Hash one after the other (the cold
\* path of Hash needs a second goroutine between the two halves of Add).
CHNextSeq ==
    \/ MutCall("p1")
    \/ MutUpdate("p1")
    \/ MutUnlock("p1")
    \/ MutRLock("p1")
    \/ MutLookupLock("p1")
    \/ ComputeInit("p1")
    \/ ComputeStep("p1")
    \/ MutLookupUnlock("p1")
    \/ MutReturn("p1")
    \/ HashCall("p1")
    \/ HashCheckBackends("p1")
    \/ HashCheckLookup("p1")
    \/ HashLookupUnlock("p1")
    \/ HashReturn("p1")

\* The monitor that the chash specifications leave untouched.
HMIdleOptions ==
    [Backends |-> <<>>, UnhealthyThreshold |-> 0, HealthyThreshold |-> 0,
     Interval |-> 0, Timeout |-> 0, HealthyInitially |-> FALSE,
     EnableHealthyChannel |-> FALSE, EnableUnhealthyChannel |-> FALSE]

\* Sequential callers: every table size and every sampled checksum.
CHInitSeq ==
    /\ size \in CHSizes
    /\ crcOffset \in [CHNames -> CrcSamples]
    /\ crcSkip \in [CHNames -> CrcSamples]
    /\ NewConsistentHash
    /\ NewHealthMonitor(HMIdleOptions)
    /\ THIdle

\* Concurrent callers: every table size; checksums that give distinct offsets
\* and the smallest and the largest skip.
CHInit ==
    /\ size \in CHSizes
    /\ crcOffset = [n \in CHNames |-> IF n = "b1" THEN 0 ELSE 1]
    /\ crcSkip \in [CHNames -> {0, MaxCrc - 1}]
    /\ NewConsistentHash
    /\ NewHealthMonitor(HMIdleOptions)
    /\ THIdle

vars == <<chVars, hmVars, thVars>>

SpecCH == CHInit /\ [][CHNext]_vars

SpecCHSeq == CHInitSeq /\ [][CHNextSeq]_vars

\* ------------------------------------------------ health monitor: specifications
\* The chash table of the health monitor specifications stays as constructed.
CHIdle ==
    /\ size = 3
    /\ crcOffset = [n \in CHNames |-> 0]
    /\ crcSkip = [n \in CHNames |-> 0]
    /\ NewConsistentHash

\* The monitor with its callers: c1 adds and removes while c2 starts and
\* stops, next to the ticker, its probes and the two subscribers.
HMInit ==
    /\ \E o \in HMOptions({<<>>, <<CfgB1>>}, {2}, {1}) :
           o.HealthyInitially /\ NewHealthMonitor(o)
    /\ CHIdle
    /\ THIdle

HMNext ==
    \/ \E c \in HMCallers :
        \/ AddCall(c)
        \/ RemoveCall(c)
        \/ RemoveLocked(c)
        \/ RemoveLoop(c)
        \/ RemoveSend(c)
        \/ RemoveDelete(c)
    \/ \E c \in HMClients :
        \/ AddLock(c)
        \/ AddLoop(c)
        \/ AddSend(c)
    \/ StartCall(HMOwner)
    \/ StartSpawn(HMOwner)
    \/ StopCall(HMOwner)
    \/ StopJoin(HMOwner)
    \/ StopClose(HMOwner)
    \/ TickFire
    \/ TickLock
    \/ TickSpawn
    \/ \E n \in HMNames : ProbeRun(n) \/ ProbeSend(n)
    \/ TickJoin
    \/ TickerExit
    \/ RecvHealthy
    \/ RecvUnhealthy

SpecHM == HMInit /\ [][HMNext]_vars

\* The monitor started and left running: every pre-loaded list, every pair of
\* thresholds, every combination of channels.
HMTicksInit ==
    /\ \E o \in HMOptions({<<>>, <<CfgB1>>, <<CfgB1, CfgB2>>, <<CfgNoUrl>>}, {1, 2}, {1, 2}) :
           NewHealthMonitor(o)
    /\ CHIdle
    /\ THIdle

HMTicksNext ==
    \/ StartCall(HMOwner)
    \/ AddLock(HMOwner)
    \/ AddLoop(HMOwner)
    \/ AddSend(HMOwner)
    \/ StartSpawn(HMOwner)
    \/ TickFire
    \/ TickLock
    \/ TickSpawn
    \/ \E n \in HMNames : ProbeRun(n) \/ ProbeSend(n)
    \/ TickJoin
    \/ RecvHealthy
    \/ RecvUnhealthy

SpecHMTicks == HMTicksInit /\ [][HMTicksNext]_vars

\* The monitor's API used by one caller while the monitor runs: c1 adds,
\* removes and queries, c2 starts the monitor, the ticker probes. Every
\* setting of the two channel options.
HMApiInit ==
    /\ \E o \in HMOptions({<<>>}, {1}, {2}) : o.HealthyInitially /\ NewHealthMonitor(o)
    /\ CHIdle
    /\ THIdle

HMApiNext ==
    \/ \E c \in HMCallers :
        \/ AddCall(c)
        \/ RemoveCall(c)
        \/ RemoveLocked(c)
        \/ RemoveLoop(c)
        \/ RemoveSend(c)
        \/ RemoveDelete(c)
        \/ IsHealthyCall(c)
        \/ IsHealthyRead(c)
        \/ IsHealthyReturn(c)
        \/ HealthyChan(c)
        \/ UnhealthyChan(c)
    \/ \E c \in HMClients :
        \/ AddLock(c)
        \/ AddLoop(c)
        \/ AddSend(c)
    \/ StartCall(HMOwner)
    \/ StartSpawn(HMOwner)
    \/ TickFire
    \/ TickLock
    \/ TickSpawn
    \/ \E n \in HMNames : ProbeRun(n) \/ ProbeSend(n)
    \/ TickJoin
    \/ RecvHealthy
    \/ RecvUnhealthy

SpecHMApi == HMApiInit /\ [][HMApiNext]_vars

\* Add alone, on a monitor built with every setting of HealthyInitially and
\* of the two channel options, with the subscriber of the healthy channel
\* receiving (nothing here sends on the unhealthy channel).
HMAddInit ==
    /\ \E o \in HMOptions({<<>>}, {1}, {2}) : NewHealthMonitor(o)
    /\ CHIdle
    /\ THIdle

HMAddNext ==
    \/ \E c \in HMCallers :
        \/ AddCall(c)
        \/ AddLock(c)
        \/ AddLoop(c)
        \/ AddSend(c)
    \/ RecvHealthy

SpecHMAdd == HMAddInit /\ [][HMAddNext]_vars

\* The monitor started once and stopped once, under
\* the scheduling the Go runtime gives the monitor's own goroutines: a
\* goroutine that can run does run (weak fairness); a goroutine waiting for
\* the mutex or for room in a channel is served when its turn comes round
\* (the mutex and the channel queue their waiters), and select takes a case
\* that is ready again and again (strong fairness). Nothing is assumed of the
\* callers or of the subscribers.
HMFairInit ==
    /\ \E o \in HMOptions({<<CfgB1>>, <<CfgB1, CfgB2>>}, {1}, {1}) :
           o.HealthyInitially /\ NewHealthMonitor(o)
    /\ CHIdle
    /\ THIdle

HMFairNext ==
    \/ StartCall(HMOwner)
    \/ AddLock(HMOwner)
    \/ AddLoop(HMOwner)
    \/ AddSend(HMOwner)
    \/ StartSpawn(HMOwner)
    \/ StopCall(HMOwner)
    \/ StopJoin(HMOwner)
    \/ StopClose(HMOwner)
    \/ TickFire
    \/ TickLock
    \/ TickSpawn
    \/ \E n \in HMNames : ProbeRun(n) \/ ProbeSend(n)
    \/ TickJoin
    \/ TickerExit
    \/ RecvHealthy
    \/ RecvUnhealthy

HMFairness ==
    /\ \A c \in HMClients :
          /\ SF_vars(AddLock(c))
          /\ WF_vars(AddLoop(c))
          /\ SF_vars(AddSend(c))
    /\ WF_vars(StartSpawn(HMOwner))
    /\ WF_vars(StopJoin(HMOwner))
    /\ WF_vars(StopClose(HMOwner))
    /\ SF_vars(TickLock)
    /\ WF_vars(TickSpawn)
    /\ \A n \in HMNames : WF_vars(ProbeRun(n)) /\ SF_vars(ProbeSend(n))
    /\ WF_vars(TickJoin)
    /\ SF_vars(TickerExit)

SpecHMFair == HMFairInit /\ [][HMFairNext]_vars /\ HMFairness

\* Two pre-loaded backends, every pair of thresholds, both channels enabled
\* and their subscribers receiving: every probe of b1 panics, the probes of b2
\* succeed or fail; Stop may be called.
HMPanicInit ==
    /\ \E o \in HMOptions({<<CfgB1, CfgB2>>}, {1, 2}, {1, 2}) :
           /\ o.HealthyInitially
           /\ o.EnableHealthyChannel
           /\ o.EnableUnhealthyChannel
           /\ NewHealthMonitor(o)
    /\ CHIdle
    /\ THIdle

HMPanicNext ==
    \/ StartCall(HMOwner)
    \/ AddLock(HMOwner)
    \/ AddLoop(HMOwner)
    \/ AddSend(HMOwner)
    \/ StartSpawn(HMOwner)
    \/ StopCall(HMOwner)
    \/ StopJoin(HMOwner)
    \/ StopClose(HMOwner)
    \/ TickFire
    \/ TickLock
    \/ TickSpawn
    \/ ProbeReply(CfgB1.Name, "panic")
    \/ \E reply \in {"ok", "err"} : ProbeReply(CfgB2.Name, reply)
    \/ \E n \in HMNames : ProbeSend(n)
    \/ TickJoin
    \/ TickerExit
    \/ RecvHealthy
    \/ RecvUnhealthy

SpecHMPanic == HMPanicInit /\ [][HMPanicNext]_vars

\* Construction, Add and Start over intervals and timeouts: the default
\* interval (an option of 0), intervals whose two thirds are and are not whole,
\* an interval whose double wraps around; the default timeout, one below and
\* one above every bound. The channels are disabled.
HMIntervals == {0, 4, 5, 100}
HMTimeouts == {0, 1, 25}
HMClampOptions ==
    {[o EXCEPT !.Interval = i, !.Timeout = t] :
        o \in {q \in HMOptions({<<>>, <<CfgB2>>}, {1}, {1}) :
                  /\ q.HealthyInitially
                  /\ ~q.EnableHealthyChannel
                  /\ ~q.EnableUnhealthyChannel},
        i \in HMIntervals, t \in HMTimeouts}

HMClampInit ==
    /\ \E o \in HMClampOptions : NewHealthMonitor(o)
    /\ CHIdle
    /\ THIdle

HMClampNext ==
    \/ \E c \in HMCallers : AddCall(c)
    \/ StartCall(HMOwner)
    \/ StartSpawn(HMOwner)
    \/ \E c \in HMClients :
        \/ AddLock(c)
        \/ AddLoop(c)
        \/ AddSend(c)

SpecHMClamp == HMClampInit /\ [][HMClampNext]_vars

\* ------------------------------------------------- tuple_hash: specification
\* One call of Hash for every 5-tuple of the sampled addresses, ports and
\* protocol numbers, next to a table and a monitor left as constructed.
THInit ==
    /\ thArgs \in THTuples
    /\ thRet = [sum |-> Word(0, 0), err |-> None]
    /\ CHIdle
    /\ NewHealthMonitor(HMIdleOptions)

THNext == TupleHash

SpecTH == THInit /\ [][THNext]_vars

\* ------------------------------------------------------------ chash claims

\* No Add or Remove call is in progress.
CHNoMutatorRunning == \A p \in CHProcs : opKind[p] \notin {"Add", "Remove"}

\* C1: after any sequence of completed Add and Remove calls that leaves at
\* least one backend, the lookup table has exactly size entries, every entry
\* names a backend of the membership map, and Hash returns such a name.
C1_LookupComplete ==
    /\ (CHNoMutatorRunning /\ DOMAIN chBackends # {}) =>
           /\ SliceLen(lookup) = size
           /\ \A k \in DOMAIN lookup : lookup[k] \in DOMAIN chBackends
    /\ \A p \in CHProcs :
           (pc[p] = "h_runlock" /\ DOMAIN chBackends # {}) =>
               ret[p] \in DOMAIN chBackends

\* C1 witness: b2 was added while b1 was present (its id is 1), b1 has been
\* removed, and the recomputed table of size 5 holds b2 in every slot.
C1_Witness ==
    /\ CHNoMutatorRunning
    /\ size = 5
    /\ DOMAIN chBackends = {"b2"}
    /\ chBackends["b2"].id = 1
    /\ SliceLen(lookup) = 5
    /\ \A k \in DOMAIN lookup : lookup[k] = "b2"

\* C2: in every interleaving, the value Hash returns is the empty string if and
\* only if the membership map was empty when Hash read it; with a nonempty
\* membership it never returns the empty slot of a table being populated.
C2_EmptyIffNoBackends ==
    \A p \in CHProcs :
        pc[p] \in {"h_lunlock", "h_lrunlock", "h_runlock"} =>
            ((ret[p] = "") <=> (hMem[p] = {}))

\* C2 witness: a Hash that populated the table itself (cold path) while an Add
\* or Remove of another goroutine is in progress, about to return a name.
C2_Witness ==
    \E p, q \in CHProcs :
        /\ p # q
        /\ pc[p] = "h_lunlock"
        /\ ret[p] \in CHNames
        /\ opKind[q] \in {"Add", "Remove"}

\* --------------------------------------------------- health monitor claims
\* C3: hysteresis. A probe turns a backend's healthy flag from true to false
\* only when it completes at least UnhealthyThreshold failed probes in a row,
\* and from false to true only when it completes at least HealthyThreshold
\* successful probes in a row; the streak the monitor keeps is the number of
\* results of one direction in a row, so it is 1 (or -1) right after a result
\* of the opposite direction. The thresholds are those of the monitor's
\* configuration, which healthcheck hands to fail and success.
C3_Hysteresis ==
    [][\A n \in DOMAIN hmBackends \cap DOMAIN hmBackends' :
          /\ (hmBackends[n].healthy /\ ~hmBackends'[n].healthy)
                => (consec'[n] # consec[n] /\ consec'[n] <= -cfg.UnhealthyThreshold)
          /\ (~hmBackends[n].healthy /\ hmBackends'[n].healthy)
                => (consec'[n] # consec[n] /\ consec'[n] >= cfg.HealthyThreshold)
          /\ hmBackends'[n].statusStreak = consec'[n]]_vars

\* A backend that failed once (threshold 1: unhealthy) and then succeeded
\* twice (threshold 2: healthy again at the second success).
C3_Witness ==
    /\ cfg.UnhealthyThreshold = 1
    /\ cfg.HealthyThreshold = 2
    /\ tk = "select"
    /\ lastChecked = 3
    /\ \E n \in DOMAIN hmBackends :
           hmBackends[n].healthy /\ hmBackends[n].statusStreak = 2

\* C4: Add is all-or-nothing. A call whose batch holds a config with an empty
\* name or an empty URL, at whatever position, never gets past validation, and
\* the step in which Add (or Start's Add) returns its error leaves the backend
\* map with every flag and streak, and both channels, as they were.
HMHasInvalid(cfgs) == \E i \in DOMAIN cfgs : cfgs[i].Name = "" \/ cfgs[i].Url = ""
C4_AddAllOrNothing ==
    [][\A c \in HMClients :
          /\ hpc'[c] \in {"a_lock", "a_loop", "a_send"} => ~HMHasInvalid(cl'[c].cfgs)
          /\ (hret'[c] = "error" /\ hret[c] # "error")
                => UNCHANGED <<hmBackends, healthyChan, unhealthyChan>>]_vars

\* Add has returned an error on a monitor that holds a backend with a streak
\* and a notification waiting on a channel.
C4_Witness ==
    /\ hret["c1"] = "error"
    /\ hpc["c1"] = "idle"
    /\ healthyChan.buf # <<>>
    /\ \E n \in DOMAIN hmBackends : hmBackends[n].statusStreak # 0

\* C5: when a Remove call ends, every name of the call that was registered
\* when it took the lock is gone from the map, and the call has sent for it
\* exactly one notification on the unhealthy channel when that channel is
\* enabled, with healthy = false and a null timestamp, before it deleted the
\* backend.
HMSentFor(c, n) == {i \in DOMAIN cl[c].sent : cl[c].sent[i].name = n}
C5_RemoveNotifiesAndDeletes ==
    [][\A c \in HMCallers :
          /\ (cl[c].kind = "Remove" /\ hpc[c] # hpc'[c] /\ hpc'[c] \in {"idle", "panicked"})
                => \A n \in cl[c].reg :
                      /\ n \notin DOMAIN hmBackends'
                      /\ Cardinality(HMSentFor(c, n)) =
                             IF cfg.EnableUnhealthyChannel THEN 1 ELSE 0
                      /\ \A i \in HMSentFor(c, n) :
                             ~cl[c].sent[i].healthy /\ cl[c].sent[i].timestamp = Null
          /\ (cl[c].kind = "Remove" /\ DOMAIN hmBackends' # DOMAIN hmBackends)
                => \A n \in DOMAIN hmBackends \ DOMAIN hmBackends' :
                      cfg.EnableUnhealthyChannel => HMSentFor(c, n) # {}]_vars

\* C6: a Remove call does not fault at a name that is not registered.
C6_UnknownNameIgnored ==
    \A c \in HMCallers :
        ~(/\ hpc[c] = "panicked"
          /\ cl[c].kind = "Remove"
          /\ cl[c].names[cl[c].k] \notin DOMAIN hmBackends)

\* C7: no goroutine - an Add, a Remove or a probe of a tick - sends a
\* notification on a channel that Stop has closed.
C7_NoSendOnClosed ==
    /\ \A c \in HMClients : hfault[c] # SendOnClosed
    /\ \A n \in DOMAIN probe : probe[n].st # "panicked"

\* C8: cancel, then join, then close. Once Stop is closing or has closed a
\* channel, the ticker goroutine has exited and no probe of a tick is left,
\* and no probe has sent on a closed channel.
C8_CloseAfterJoin ==
    /\ (healthyChan.closed \/ unhealthyChan.closed \/ hpc[HMOwner] = "s_close")
          => (tk = "exited" /\ DOMAIN probe = {})
    /\ \A n \in DOMAIN probe : probe[n].st # "panicked"

\* Stop has cancelled and waits for the ticker while a probe of the tick in
\* progress still has its notification to send.
C8_Witness ==
    /\ hpc[HMOwner] = "s_join"
    /\ tk = "t_wait"
    /\ \E n \in DOMAIN probe : probe[n].st = "send"

\* C10: Start never waits for a subscriber: it is never at a send that only a
\* receive on the channel can let through.
C10_StartNeverWaits ==
    \A c \in HMClients :
        (cl[c].kind = "Start" /\ hpc[c] = "a_send")
            => ~SendBlocks(hmBackends[cl[c].cfgs[cl[c].k].Name].healthy)

\* C9: Stop, called on a started monitor, eventually returns with every
\* enabled channel closed. With nothing asked of the subscribers, that needs
\* the monitor to get there by itself: while Stop waits, one of the monitor's
\* own goroutines can take a step.
HMStopWaits == hpc[HMOwner] = "s_join" /\ tk # "off"
HMStopReturned ==
    /\ stopCalled
    /\ hpc[HMOwner] = "idle"
    /\ cfg.EnableHealthyChannel => healthyChan.closed
    /\ cfg.EnableUnhealthyChannel => unhealthyChan.closed
\* A step of one of the monitor's own goroutines.
HMMonitorStep ==
    \/ \E c \in HMClients : AddLock(c) \/ AddLoop(c) \/ AddSend(c)
    \/ StartSpawn(HMOwner)
    \/ StopJoin(HMOwner)
    \/ StopClose(HMOwner)
    \/ TickFire
    \/ TickLock
    \/ TickSpawn
    \/ \E n \in HMNames : ProbeRun(n) \/ ProbeSend(n)
    \/ TickJoin
    \/ TickerExit
C9_StopNeverStuck == HMStopWaits => ENABLED HMMonitorStep

\* C9, amended: the same, given that the subscribers keep receiving from the
\* enabled channels.
C9_StopReturnsWhenDrained ==
    (WF_vars(RecvHealthy) /\ WF_vars(RecvUnhealthy)) => (HMStopWaits ~> HMStopReturned)

\* Stop waits for the ticker in the middle of a tick whose probe has a new
\* state to notify and finds the channel full.
C9_Witness ==
    /\ HMStopWaits
    /\ tk = "t_wait"
    /\ \E n \in DOMAIN probe : probe[n].st = "send" /\ SendBlocks(probe[n].healthy)

\* C11: a probe of a tick has a notification to send only if it changed the
\* backend's healthy flag, and then for the direction of the change: to
\* healthy on the healthy channel, to unhealthy on the unhealthy channel. A
\* probe that leaves the flag as it was has nothing to send.
C11_NotifyOnlyOnChange ==
    [][\A n \in DOMAIN probe \cap DOMAIN probe' :
          (probe[n].st = "run" /\ probe'[n].st = "send")
              => /\ hmBackends'[n].healthy # hmBackends[n].healthy
                 /\ probe'[n].healthy = hmBackends'[n].healthy]_vars

\* C12: Add stores a name that is not registered yet with healthy =
\* HealthyInitially, as the caller configured it, and statusStreak = 0, and
\* its send puts exactly one notification for the name on the channel of that
\* state when the channel is enabled, and nothing on the other channel.
HMOneMore(ch, chNext, enabled, n, h) ==
    IF enabled
    THEN /\ Len(chNext.buf) = Len(ch.buf) + 1
         /\ chNext.buf[Len(chNext.buf)].name = n
         /\ chNext.buf[Len(chNext.buf)].healthy = h
         /\ SubSeq(chNext.buf, 1, Len(ch.buf)) = ch.buf
    ELSE chNext = ch
C12_AddInitialState ==
    [][\A c \in HMClients :
          /\ (hpc[c] = "a_loop" /\ hpc'[c] = "a_send")
                => LET n == cl[c].cfgs[cl[c].k].Name
                   IN  /\ n \notin DOMAIN hmBackends
                       /\ hmBackends'[n].healthy = opts.HealthyInitially
                       /\ hmBackends'[n].statusStreak = 0
          /\ (hpc[c] = "a_send" /\ hpc'[c] # "a_send")
                => LET n == cl[c].cfgs[cl[c].k].Name
                       h == opts.HealthyInitially
                   IN  /\ HMOneMore(healthyChan, healthyChan',
                                    h /\ opts.EnableHealthyChannel, n, h)
                       /\ HMOneMore(unhealthyChan, unhealthyChan',
                                    ~h /\ opts.EnableUnhealthyChannel, n, h)]_vars

\* C13: the round of Add's loop that meets a name already in the map - put
\* there by an earlier call or earlier in the same batch - goes on to the
\* next config and leaves the map (every config, flag and streak, so the
\* size too) and both channels as they were; Add returns success when its
\* loop ends.
C13_DuplicateSkipped ==
    [][\A c \in HMClients :
          /\ (/\ hpc[c] = "a_loop"
              /\ cl[c].k <= Len(cl[c].cfgs)
              /\ cl[c].cfgs[cl[c].k].Name \in DOMAIN hmBackends
              /\ (hpc'[c] # hpc[c] \/ cl'[c] # cl[c]))
                => /\ hpc'[c] = "a_loop"
                   /\ cl'[c].k = cl[c].k + 1
                   /\ UNCHANGED <<hmBackends, healthyChan, unhealthyChan>>
          /\ (cl[c].kind = "Add" /\ hpc[c] = "a_loop" /\ hpc'[c] = "idle")
                => hret'[c] = "ok"]_vars

\* Add has gone past its first config without inserting it: the backend of
\* that name has a streak, which no backend has when Add inserts it.
C13_Witness ==
    /\ hpc["c1"] = "a_loop"
    /\ cl["c1"].k = 2
    /\ Len(cl["c1"].cfgs) = 2
    /\ cl["c1"].cfgs[1].Name \in DOMAIN hmBackends
    /\ hmBackends[cl["c1"].cfgs[1].Name].statusStreak # 0
    /\ cl["c1"].cfgs[2].Name = cl["c1"].cfgs[1].Name

\* C14: each backend changes state by its own effective thresholds (the
\* values Add has written into its config): after at least its
\* unhealthy_threshold failed probes in a row it is unhealthy, after at least
\* its healthy_threshold successful probes in a row it is healthy.
C14_OwnThresholds ==
    \A n \in DOMAIN hmBackends :
        /\ consec[n] <= -hmBackends[n].Cfg.UnhealthyThreshold => ~hmBackends[n].healthy
        /\ consec[n] >= hmBackends[n].Cfg.HealthyThreshold => hmBackends[n].healthy

\* C15: HealthyChan (UnhealthyChan) returns the channel exactly when the
\* option that enables it was given at construction, and ErrChannelNotEnabled
\* otherwise; a channel that is not enabled never holds a notification, and no
\* Add, Remove or probe at a send for it has to wait.
C15_ChannelIffEnabled ==
    /\ \A c \in HMClients :
          /\ cl[c].kind = "HealthyChan"
                => /\ hret[c] = "healthyChan" <=> opts.EnableHealthyChannel
                   /\ hret[c] = ErrChannelNotEnabled <=> ~opts.EnableHealthyChannel
          /\ cl[c].kind = "UnhealthyChan"
                => /\ hret[c] = "unhealthyChan" <=> opts.EnableUnhealthyChannel
                   /\ hret[c] = ErrChannelNotEnabled <=> ~opts.EnableUnhealthyChannel
          /\ (hpc[c] = "a_send" /\ ~opts.EnableHealthyChannel
                 /\ hmBackends[cl[c].cfgs[cl[c].k].Name].healthy)
                => ENABLED AddSend(c)
          /\ (hpc[c] = "r_send" /\ ~opts.EnableUnhealthyChannel)
                => ENABLED RemoveSend(c)
    /\ \A n \in DOMAIN probe :
          (/\ probe[n].st = "send"
           /\ ~(IF probe[n].healthy THEN opts.EnableHealthyChannel
                                     ELSE opts.EnableUnhealthyChannel))
              => ENABLED ProbeSend(n)
    /\ ~opts.EnableHealthyChannel => healthyChan = NewChan
    /\ ~opts.EnableUnhealthyChannel => unhealthyChan = NewChan

\* HealthyChan has failed with ErrChannelNotEnabled on a monitor whose probe
\* has a new unhealthy state to send while the unhealthy channel is full.
C15_Witness ==
    /\ cl["c1"].kind = "HealthyChan"
    /\ hret["c1"] = ErrChannelNotEnabled
    /\ unhealthyChan.buf # <<>>
    /\ \E n \in DOMAIN probe : probe[n].st = "send" /\ ~probe[n].healthy

\* C16: IsHealthy(name) returns the healthy flag the backend has when the
\* call returns if name is registered then, and false if it is not.
C16_IsHealthyResult ==
    [][\A c \in HMClients :
          (hpc[c] = "i_runlock" /\ hpc'[c] = "idle")
              => LET name == cl[c].names[1]
                 IN  hret'[c] = IF name \in DOMAIN hmBackends
                                THEN BoolStr(hmBackends[name].healthy)
                                ELSE "false"]_vars

\* IsHealthy is about to return false for a name that is not registered while
\* the other name is registered and the probes of a tick have turned it
\* unhealthy.
C16_Witness ==
    /\ hpc["c1"] = "i_runlock"
    /\ hret["c1"] = "false"
    /\ cl["c1"].names[1] \notin DOMAIN hmBackends
    /\ \E n \in DOMAIN hmBackends : ~hmBackends[n].healthy

\* ------------------------------------------------- chash claims, continued
\* The table a finished population has left is the one computeLookupTable
\* gives for the slice it worked on.
CHPopulationAgrees ==
    \A p \in CHProcs :
        pc[p] \in {"h_read", "m_lunlock"} => lookup = computeLookupTable(cSlice[p])

\* The tables computeLookupTable can leave for the membership as it is now.
CHTables == {computeLookupTable(s) : s \in getBackendsAsSlice}

\* C17: the update of Add leaves the record {id, offset, skip} of every name
\* that was in the membership map as it was; and when every name handed to
\* Add was in the map, the lookup table computed afterwards is the one
\* computed before.
C17_AddKeepsPresent ==
    [][\A p \in CHProcs :
          (pc[p] = "m_lwait" /\ pc'[p] = "m_unlock" /\ opKind[p] = "Add")
              => /\ \A n \in DOMAIN chBackends : chBackends'[n] = chBackends[n]
                 /\ (\A k \in DOMAIN opArgs[p] : opArgs[p][k] \in DOMAIN chBackends)
                       => CHTables' = CHTables]_vars

\* C18: the ids of the backends in the membership map are pairwise distinct.
C18_IdsDistinct ==
    \A a, b \in DOMAIN chBackends :
        a # b => chBackends[a].id # chBackends[b].id

\* C19: the table a population leaves is fixed by the membership map: when
\* computeLookupTable is entered, the ids give one order of the backends, and
\* so one table.
C19_Deterministic ==
    \A p \in CHProcs :
        (pc[p] = "c_lwait" /\ LockHeld(lookupMtx, p))
            => /\ Cardinality(getBackendsAsSlice) = 1
               /\ Cardinality(CHTables) = 1

\* C20: after a population with at least one backend, the numbers of slots
\* that any two backends of the membership own differ by at most one.
CHOwned(n) == Cardinality({k \in DOMAIN lookup : lookup[k] = n})
C20_Balanced ==
    (CHNoMutatorRunning /\ DOMAIN chBackends # {})
        => \A a, b \in DOMAIN chBackends : CHOwned(a) - CHOwned(b) \in {-1, 0, 1}

\* Two backends share a table of 5 slots, 3 and 2, with the same offset and
\* skip, so that each search for a free slot has to pass the other's slots.
C20_Witness ==
    /\ CHNoMutatorRunning
    /\ size = 5
    /\ DOMAIN chBackends = {"b1", "b2"}
    /\ chBackends["b1"].offset = chBackends["b2"].offset
    /\ chBackends["b1"].skip = chBackends["b2"].skip
    /\ {CHOwned("b1"), CHOwned("b2")} = {2, 3}

\* ------------------------------------------- chash: whole calls, three backends
\* Add and Remove run by one goroutine alone, over three backend names, in two
\* steps: the update of the membership map under the exclusive lock, then the
\* population from its first line to its return. A population that never ends
\* is no step: the call does not return.
CHStabNames == CHNames \cup {"b3"}
CHStabArgLists == UNION {[1 .. k -> CHStabNames] : k \in 0 .. MaxBatch}

\* Add lines 438-453 / Remove lines 463-469.
CHUpdate(kind, names) ==
    /\ pc["p1"] = "idle"
    /\ opKind' = [opKind EXCEPT !["p1"] = kind]
    /\ opArgs' = [opArgs EXCEPT !["p1"] = names]
    /\ chBackends' = IF kind = "Add" THEN AddAll(chBackends, names, 1)
                                     ELSE RemoveAll(chBackends, names)
    /\ pc' = [pc EXCEPT !["p1"] = "m_rlock"]
    /\ UNCHANGED <<thVars, hmVars, chConst, lookup, backendsMtx, lookupMtx, opKey, ret, hMem,
                   chLocals>>

\* Add lines 454-459 / Remove lines 470-475.
CHRecompute ==
    /\ pc["p1"] = "m_rlock"
    /\ lookup' \in CHTables
    /\ lookup' # <<>>
    /\ opKind' = [opKind EXCEPT !["p1"] = None]
    /\ opArgs' = [opArgs EXCEPT !["p1"] = <<>>]
    /\ pc' = [pc EXCEPT !["p1"] = "idle"]
    /\ UNCHANGED <<thVars, hmVars, chConst, chBackends, backendsMtx, lookupMtx, opKey, ret, hMem,
                   chLocals>>

\* Every table size, the smallest and the largest sampled checksum for the
\* offset, the smallest and the largest skip.
CHStabInit ==
    /\ size \in CHSizes
    /\ crcOffset \in [CHStabNames -> {0, MaxCrc}]
    /\ crcSkip \in [CHStabNames -> {0, MaxCrc - 1}]
    /\ NewConsistentHash
    /\ NewHealthMonitor(HMIdleOptions)
    /\ THIdle

CHStabNext ==
    \/ \E kind \in {"Add", "Remove"}, names \in CHStabArgLists : CHUpdate(kind, names)
    \/ CHRecompute

SpecCHStab == CHStabInit /\ [][CHStabNext]_vars

\* The slots whose backend differs between two tables of the same length.
CHMoved(t1, t2) == {k \in DOMAIN t1 : t1[k] # t2[k]}

\* The population in progress is that of an Add of the one backend x to the
\* nonempty membership B that the table was computed for: x is new, the ids
\* of B and x are pairwise distinct.
CHAddsOne(x) ==
    /\ pc["p1"] = "m_rlock"
    /\ opKind["p1"] = "Add"
    /\ opArgs["p1"] = <<x>>
    /\ DOMAIN chBackends # {x}
    /\ SliceLen(lookup) = size
    /\ {lookup[k] : k \in DOMAIN lookup} = DOMAIN chBackends \ {x}
    /\ \A a, b \in DOMAIN chBackends : a # b => chBackends[a].id # chBackends[b].id

\* C21: when Add brings one new backend x to the membership B, the slots whose
\* backend differs between the table for B and the table for B plus x are at
\* most the fraction 2/(|B|+1) of the table.
C21_Stability ==
    [][\A x \in CHStabNames :
          CHAddsOne(x) =>
              Cardinality(CHMoved(lookup, lookup')) * Cardinality(DOMAIN chBackends)
                  <= 2 * size]_vars

\* ---------------------------------------------------------- tuple_hash claims
\* The forms of one address: itself, the long form ::ffff:a.b.c.d of a short
\* IPv4 address a.b.c.d, and the short form of such a long one.
THForms(ip) ==
    {ip} \cup (IF Len(ip) = 4 THEN {v4InV6Prefix \o ip} ELSE {})
         \cup (IF Len(ip) = 16 /\ SubSeq(ip, 1, 12) = v4InV6Prefix
                  THEN {SubSeq(ip, 13, 16)} ELSE {})

\* C22: the checksum Hash returns for a 5-tuple is the one it gives for the
\* same tuple with the source address, the destination address or both in
\* their other form (a.b.c.d and ::ffff:a.b.c.d), and Hash returns no error.
C22_SameForAllForms ==
    thRet.err # None =>
        /\ thRet.err = "nil"
        /\ \A s \in THForms(thArgs.srcIP), d \in THForms(thArgs.dstIP) :
               Hash(s, thArgs.srcPort, d, thArgs.dstPort, thArgs.proto) = thRet

\* C22 witness: Hash has returned for 1.2.3.4 port 1000 to ::ffff:5.6.7.8 port
\* 80, protocol 6, with the checksum 0xdbcb5251 that crc32 gives for the two
\* long forms followed by the ports and the protocol number.
C22_Witness ==
    /\ thRet.err = "nil"
    /\ thArgs.srcIP = <<1, 2, 3, 4>>
    /\ thArgs.srcPort = 1000
    /\ thArgs.dstIP = v4InV6Prefix \o <<5, 6, 7, 8>>
    /\ thArgs.dstPort = 80
    /\ thArgs.proto = 6
    /\ thRet.sum = Word(56267, 21073)

\* --------------------------------------------- health monitor claims, continued
\* A step of Stop itself: its call, or a step of the goroutine running it.
HMStopStep ==
    \E c \in HMClients :
        \/ cl[c].kind # "Stop" /\ cl'[c].kind = "Stop"
        \/ cl[c].kind = "Stop" /\ hpc'[c] # hpc[c]

\* C23: Stop, called on a started monitor, leaves the backend state frozen:
\* from the call on no step changes what Size and IsHealthy read, so that
\* after Stop they return what they returned just before the call.
C23_FrozenFromCall ==
    [][(stopCalled /\ tk # "off") => Health' = Health]_vars

\* C23, amended: Stop's own steps change nothing of the map; from the call of
\* Stop on the names in the map stay the same (Size); and once Stop has
\* returned no step changes a healthy flag. Probes that run between the call
\* and the return of Stop still set flags.
C23_FrozenFromReturn ==
    [][/\ HMStopStep => hmBackends' = hmBackends
       /\ (stopCalled /\ tk # "off") => DOMAIN Health' = DOMAIN Health
       /\ HMStopReturned => Health' = Health]_vars

\* Stop has returned and a backend is unhealthy: a probe has set its flag.
C23_Witness ==
    /\ HMStopReturned
    /\ tk = "exited"
    /\ \E n \in DOMAIN hmBackends : ~hmBackends[n].healthy

\* C24: the monitor-wide timeout, the timeout of every config that Add has
\* validated and the timeout of every registered backend are at most
\* Interval*2/3 in the arithmetic of time.Duration; the monitor-wide timeout
\* is the configured one (or the default) when that is not above the bound;
\* and Add gives a config with timeout zero the monitor-wide timeout and
\* leaves a timeout that is not zero and not above the bound as it is.
C24_TimeoutsClamped ==
    LET bound == TwoThirds(cfg.Interval)
        wanted == SetDefault(opts.Timeout, 0, DefaultTimeout)
    IN  /\ cfg.Timeout <= bound
        /\ wanted <= bound => cfg.Timeout = wanted
        /\ \A n \in DOMAIN hmBackends : hmBackends[n].Cfg.Timeout <= bound
        /\ \A c \in HMClients : \A i \in DOMAIN cl[c].cfgs : cl[c].cfgs[i].Timeout <= bound
        /\ \A b \in HMCatalogue :
               /\ b.Timeout = 0 => Normalize(b).Timeout = cfg.Timeout
               /\ (b.Timeout # 0 /\ b.Timeout <= bound) => Normalize(b).Timeout = b.Timeout

\* C24 witness: with an interval whose double wraps around, the bound is
\* negative; b1 (timeout zero) and b2 (timeout 9) are registered, both with
\* the bound, which is the monitor-wide timeout too.
C24_Witness ==
    /\ opts.Interval = 100
    /\ TwoThirds(cfg.Interval) < 0
    /\ DOMAIN hmBackends = {"b1", "b2"}
    /\ hmBackends["b1"].Cfg.Timeout = cfg.Timeout
    /\ hmBackends["b2"].Cfg.Timeout = TwoThirds(cfg.Interval)

\* ------------------------------------------ chash claims: concurrent callers
\* C25: the name a Hash call is about to return, while it still holds the
\* shared membership lock, is a name of the membership map (or the empty
\* string when the map was empty).
C25_HashReturnsMember ==
    \A p \in CHProcs :
        (pc[p] \in {"h_lunlock", "h_lrunlock", "h_runlock"} /\ RLockHeld(backendsMtx, p))
            => ret[p] \in DOMAIN chBackends \cup {""}

\* An Add or Remove of p is between the update of the membership map and the
\* end of its population.
CHRecomputePending(p) ==
    /\ opKind[p] \in {"Add", "Remove"}
    /\ pc[p] \in {"m_unlock", "m_rlock", "m_rwait", "c_lwait", "c_loop", "m_lunlock"}

\* C26: from the update of the membership map until its population has
\* finished, an Add or Remove holds the membership lock exclusively, and no
\* other goroutine holds it; during the population it holds the lookup lock
\* exclusively.
C26_MutatorsAtomic ==
    \A p \in CHProcs :
        CHRecomputePending(p) =>
            /\ LockHeld(backendsMtx, p)
            /\ \A q \in CHProcs \ {p} : ~RLockHeld(backendsMtx, q)
            /\ pc[p] = "c_loop" => LockHeld(lookupMtx, p)

\* A step of p inside the call it runs.
CHStep(p) ==
    \/ MutUpdate(p)
    \/ MutUnlock(p)
    \/ MutRLock(p)
    \/ MutLookupLock(p)
    \/ ComputeInit(p)
    \/ ComputeStep(p)
    \/ MutLookupUnlock(p)
    \/ MutReturn(p)
    \/ HashCheckBackends(p)
    \/ HashCheckLookup(p)
    \/ HashLookupLock(p)
    \/ HashReadCold(p)
    \/ HashLookupUnlock(p)
    \/ HashReturn(p)

\* p is in the loops of computeLookupTable and they do not come to an end (no
\* backend, or no free candidate): it runs, it does not wait.
CHSpins(p) == pc[p] = "c_loop" /\ ~ENABLED ComputeStep(p)

\* p holds the lookup lock or waits for it.
CHAtLookupLock(p) ==
    \/ lookupMtx.writer = p
    \/ p \in lookupMtx.readers \cup lookupMtx.rwait
    \/ pc[p] = "h_llock"

\* C27: a goroutine that holds the lookup lock or waits for it holds the
\* membership lock (shared) and so waits for no membership lock; and while
\* no goroutine is caught in a population that does not end, the goroutines
\* inside a call are never all waiting: one of them can take its next step.
C27_LockOrder ==
    /\ \A p \in CHProcs : CHAtLookupLock(p) => RLockHeld(backendsMtx, p)
    /\ ((\E p \in CHProcs : pc[p] # "idle") /\ (\A p \in CHProcs : ~CHSpins(p)))
           => \E q \in CHProcs : ENABLED CHStep(q)

\* C27 witness: a Hash on its cold path has released the shared lookup lock
\* and waits to take it exclusively, while an Add or Remove populates the
\* table under it; both hold the membership lock shared.
C27_Witness ==
    \E p, q \in CHProcs :
        /\ pc[p] = "h_llock"
        /\ pc[q] = "c_loop"
        /\ opKind[q] \in {"Add", "Remove"}
        /\ lookupMtx.writer = q
        /\ RLockHeld(backendsMtx, p)
        /\ RLockHeld(backendsMtx, q)

\* C28: an Add or a Remove that has entered computeLookupTable always has a
\* next pass to run until the table is full, so that it returns and releases
\* both locks, whatever membership its update left (the empty one included).
C28_MutatorsReturn ==
    \A p \in CHProcs :
        (opKind[p] \in {"Add", "Remove"} /\ pc[p] = "c_loop")
            => /\ lookupMtx.writer = p
               /\ ~CHSpins(p)

\* The value the permutation is meant to have, in unbounded arithmetic.
PermutationMath(name, j) ==
    (chBackends[name].offset + j * chBackends[name].skip) % size

\* C29: for every backend offset is in [0, size) and skip in [1, size-1],
\* and permutationAt(name, j), computed in the words of the code, equals
\* (offset + j*skip) mod size for every j in 0 .. size-1, so that the size
\* candidates of a backend are a permutation of 0 .. size-1.
C29_PermutationExact ==
    \A name \in DOMAIN chBackends :
        /\ chBackends[name].offset \in 0 .. size - 1
        /\ chBackends[name].skip \in 1 .. size - 1
        /\ \A j \in 0 .. size - 1 :
               permutationAt(name, j) = PermutationMath(name, j)
        /\ {permutationAt(name, j) : j \in 0 .. size - 1} = 0 .. size - 1

\* ------------------------------------- health monitor claims: failing backend
\* The ticks that have probed backend n: the tick under way counts once its
\* probe of n has run.
HMProbed(n) ==
    IF tk \in {"t_lock", "t_lwait"} \/ (n \in DOMAIN probe /\ probe[n].st = "run")
    THEN lastChecked - 1
    ELSE lastChecked

\* Backend n was created healthy and has failed every probe it has had.
HMFailedAll(n) == cfg.HealthyInitially /\ consec[n] = -HMProbed(n)

\* The probe of n of this step ran its healthcheck.
HMProbeRan(n) ==
    /\ n \in DOMAIN probe
    /\ n \in DOMAIN probe'
    /\ probe[n].st = "run"
    /\ probe'[n].st # "run"

\* The probe of n of this step sent its notification.
HMProbeSent(n) ==
    /\ n \in DOMAIN probe
    /\ n \in DOMAIN probe'
    /\ probe[n].st = "send"
    /\ probe'[n].st = "done"

\* C30: a backend created healthy that has failed every probe is healthy
\* exactly while fewer than UnhealthyThreshold ticks have probed it; the
\* probe of tick number UnhealthyThreshold, and no other, has a notification
\* to send, an unhealthy one, and its send puts exactly that one notification
\* on the unhealthy channel and nothing on the healthy channel.
C30_FailingBackend ==
    /\ [](\A n \in DOMAIN hmBackends :
              HMFailedAll(n) =>
                  (hmBackends[n].healthy <=> HMProbed(n) < cfg.UnhealthyThreshold))
    /\ [][\A n \in DOMAIN hmBackends :
              /\ (HMProbeRan(n) /\ HMFailedAll(n)')
                     => /\ probe'[n].st = "send" <=> lastChecked = cfg.UnhealthyThreshold
                        /\ probe'[n].st = "send" => ~probe'[n].healthy
              /\ (HMProbeSent(n) /\ HMFailedAll(n))
                     => /\ lastChecked = cfg.UnhealthyThreshold
                        /\ healthyChan' = healthyChan
                        /\ unhealthyChan' =
                               SendOn(unhealthyChan, cfg.EnableUnhealthyChannel,
                                      [url |-> hmBackends[n].Cfg.Url, name |-> n,
                                       healthy |-> FALSE, timestamp |-> Now])]_vars

\* C30 witness: a backend has failed every probe of more ticks than the
\* threshold, is unhealthy between two ticks, and the unhealthy channel, which
\* is enabled, has been handed its notification.
C30_Witness ==
    \E n \in DOMAIN hmBackends :
        /\ HMFailedAll(n)
        /\ HMProbed(n) > cfg.UnhealthyThreshold
        /\ ~hmBackends[n].healthy
        /\ tk = "select"
        /\ cfg.EnableUnhealthyChannel
        /\ \E i \in DOMAIN unhealthyChan.buf : unhealthyChan.buf[i].name = n

\* ---------------------------------------------- health monitor claims: streaks
Abs(x) == IF x < 0 THEN -x ELSE x
Max(a, b) == IF a > b THEN a ELSE b
Sign(x) == IF x > 0 THEN 1 ELSE IF x < 0 THEN -1 ELSE 0

\* C31 as stated: for every registered backend |statusStreak| is at most
\* max(HealthyThreshold, UnhealthyThreshold), statusStreak is zero only
\* before the first probe, and after a probe its sign is the direction of
\* that probe.
C31_StreakBounded ==
    \A n \in DOMAIN hmBackends :
        /\ Abs(hmBackends[n].statusStreak)
               <= Max(cfg.HealthyThreshold, cfg.UnhealthyThreshold)
        /\ hmBackends[n].statusStreak = 0 <=> consec[n] = 0
        /\ Sign(hmBackends[n].statusStreak) = Sign(consec[n])

\* C31 as amended: for every registered backend statusStreak is the signed
\* number of probe results of one direction the backend has had in a row
\* (it grows past the thresholds), zero only before the first probe, its
\* sign the direction of the last probe.
C31_StreakCounts ==
    \A n \in DOMAIN hmBackends :
        /\ hmBackends[n].statusStreak = consec[n]
        /\ hmBackends[n].statusStreak = 0 <=> consec[n] = 0
        /\ Sign(hmBackends[n].statusStreak) = Sign(consec[n])

\* C31 witness: a backend whose streak has grown past both thresholds.
C31_Witness ==
    \E n \in DOMAIN hmBackends :
        /\ Abs(hmBackends[n].statusStreak)
               > Max(cfg.HealthyThreshold, cfg.UnhealthyThreshold)
        /\ hmBackends[n].statusStreak = consec[n]

\* ------------------------------------------------ health monitor claims: ticks
\* How far the probe goroutine of a backend has come.
HMProbeRank(st) == IF st = "run" THEN 0 ELSE IF st = "send" THEN 1 ELSE 2

\* C32: the ticker starts a tick only when no probe of an earlier tick is
\* left; the probes of a tick are one per registered backend; a probe only
\* moves forward (healthcheck, then its send, then done) and leaves only when
\* done; and a backend's state is changed by a tick only in the one
\* healthcheck of its probe.
C32_TicksDoNotOverlap ==
    /\ [](tk = "t_wait" => DOMAIN probe = DOMAIN hmBackends)
    /\ [](tk # "t_wait" => probe = <<>>)
    /\ [][/\ lastChecked' # lastChecked => probe = <<>>
          /\ \A n \in DOMAIN probe :
                 IF n \in DOMAIN probe'
                 THEN HMProbeRank(probe'[n].st) >= HMProbeRank(probe[n].st)
                 ELSE probe[n].st = "done"
          /\ \A n \in DOMAIN hmBackends \cap DOMAIN hmBackends' :
                 hmBackends'[n] # hmBackends[n] => HMProbeRan(n)]_vars

\* C32 witness: in the second tick, with two backends, one probe is done and
\* the other has not run yet.
C32_Witness ==
    /\ lastChecked = 2
    /\ tk = "t_wait"
    /\ \E n, m \in DOMAIN probe : probe[n].st = "done" /\ probe[m].st = "run"

\* The probes of a tick are under way: from their launch to the join.
HMInTick == tk = "t_wait"

\* C33: while the probes of a tick are under way the ticker holds the
\* backend-map lock exclusively (no reader and no other writer is inside);
\* the backends probed are exactly those of the map; no step of that time
\* adds or deletes a backend or changes one otherwise than by the healthcheck
\* of its probe, and no IsHealthy reads the map.
C33_TickIsolation ==
    /\ [](HMInTick => /\ LockHeld(hmBackendsMtx, Ticker)
                      /\ \A c \in HMClients : ~RLockHeld(hmBackendsMtx, c)
                      /\ DOMAIN probe = DOMAIN hmBackends)
    /\ [][HMInTick =>
              /\ DOMAIN hmBackends' = DOMAIN hmBackends
              /\ \A n \in DOMAIN hmBackends :
                     /\ hmBackends'[n].Cfg = hmBackends[n].Cfg
                     /\ hmBackends'[n] # hmBackends[n] => HMProbeRan(n)
              /\ \A c \in HMClients :
                     ~(hpc[c] = "i_rwait" /\ hpc'[c] = "i_runlock")]_vars

\* C33 witness: during a tick that has probed a backend, an IsHealthy waits
\* for the read lock.
C33_Witness ==
    /\ HMInTick
    /\ \E n \in DOMAIN probe : probe[n].st = "done"
    /\ \E c \in HMClients :
           /\ hpc[c] = "i_rwait"
           /\ c \in hmBackendsMtx.rwait

\* --------------------------------------- health monitor claims: removed names
\* This step puts a notification for n on the channel.
HMSendsOn(ch, chNext, n) ==
    /\ Len(chNext.buf) > Len(ch.buf)
    /\ chNext.buf[Len(chNext.buf)].name = n

\* The terminal notification of n has been sent by a Remove that has not yet
\* deleted n, or n is not registered.
HMTerminal(n) ==
    \/ n \notin DOMAIN hmBackends
    \/ \E c \in HMClients :
           /\ hpc[c] = "r_delete"
           /\ cl[c].names[cl[c].k] = n

\* An Add registers n in this step.
HMAddPuts(n) ==
    \E c \in HMClients :
        /\ hpc[c] = "a_loop"
        /\ hpc'[c] = "a_send"
        /\ n \notin DOMAIN hmBackends
        /\ n \in DOMAIN hmBackends'

\* C34: once the terminal notification of a name has been sent, no step puts
\* a notification for that name on either channel, and this lasts until an
\* Add registers the name again.
C34_TerminalIsFinal ==
    [][\A n \in HMNames :
           HMTerminal(n) =>
               /\ ~HMSendsOn(healthyChan, healthyChan', n)
               /\ ~HMSendsOn(unhealthyChan, unhealthyChan', n)
               /\ HMTerminal(n)' \/ HMAddPuts(n)]_vars

\* C34 witness: the terminal notification of a removed name is on the
\* unhealthy channel while a later tick probes the backends that are left.
C34_Witness ==
    \E n \in HMNames :
        /\ n \notin DOMAIN hmBackends
        /\ \E i \in DOMAIN unhealthyChan.buf :
               /\ unhealthyChan.buf[i].name = n
               /\ unhealthyChan.buf[i].timestamp = Null
        /\ HMInTick
        /\ probe # <<>>

\* ---------------------------------------- health monitor claims: probe panics
\* C35: with a backend b1 whose every probe panics, each panic is recovered
\* and counted as one failure (the streak of b1 is minus the number of ticks
\* that probed it, by one application of fail each), the probe of b2 and its
\* record are untouched by the probe of b1 and b2's streak follows its own
\* replies, the program keeps running, a tick whose probes are done can join
\* (which releases the lock), the ticker can fire again after it, and the
\* ticker has stopped only after cancellation.
C35_PanicIsOneFailure ==
    /\ [](/\ HMRunning
          /\ CfgB1.Name \in DOMAIN hmBackends =>
                 hmBackends[CfgB1.Name].statusStreak = -HMProbed(CfgB1.Name)
          /\ CfgB2.Name \in DOMAIN hmBackends =>
                 hmBackends[CfgB2.Name].statusStreak = consec[CfgB2.Name]
          /\ (HMInTick /\ WgWait) => ENABLED TickJoin
          /\ (tk = "select" /\ lastChecked < MaxTicks) =>
                 /\ ENABLED TickFire
                 /\ hmBackendsMtx.writer # Ticker
          /\ tickerStopped => ctxDone)
    /\ [][HMProbeRan(CfgB1.Name) =>
              /\ hmBackends'[CfgB1.Name] =
                     fail(hmBackends[CfgB1.Name], cfg.UnhealthyThreshold).be
              /\ hmBackends'[CfgB2.Name] = hmBackends[CfgB2.Name]
              /\ probe'[CfgB2.Name] = probe[CfgB2.Name]]_vars

\* C35 witness: two ticks have passed, both probes of b1 panicked, both
\* probes of b2 succeeded, and the ticker, between ticks and not cancelled,
\* is ready for the next.
C35_Witness ==
    /\ lastChecked = 2
    /\ tk = "select"
    /\ ~ctxDone
    /\ hmBackends[CfgB1.Name].statusStreak = -2
    /\ hmBackends[CfgB2.Name].statusStreak = 2

\* ---------------------------------- health monitor: LastCheckedAt, NextCheckAt
\* h.lastChecked is a time.Time, a struct of several words (wall, ext, loc);
\* the assignment of line 158 stores them one after the other, with no lock
\* and no atomic. TickFire is that store taken as one step; here it is taken
\* as it runs: begun (tk = "t_write"), and ended.
TickWriteBegin ==
    /\ HMRunning
    /\ tk = "select"
    /\ lastChecked < MaxTicks
    /\ tk' = "t_write"
    /\ UNCHANGED <<thVars, chVars, hmConst, hmBackends, hmBackendsMtx, healthyChan, unhealthyChan,
                   ctxDone, tickerStopped, probe, lastChecked, hpc, cl, hret, hfault,
                   started, stopCalled, consec>>

TickWriteEnd ==
    /\ HMRunning
    /\ tk = "t_write"
    /\ lastChecked' = lastChecked + 1
    /\ tk' = "t_lock"
    /\ UNCHANGED <<thVars, chVars, hmConst, hmBackends, hmBackendsMtx, healthyChan, unhealthyChan,
                   ctxDone, tickerStopped, probe, hpc, cl, hret, hfault, started,
                   stopCalled, consec>>

\* What a load of h.lastChecked can give (lines 303 and 307, no lock): the
\* value stored, or, while a store is under way, any mix of the words of the
\* old and of the new value.
LoadLastChecked ==
    IF tk = "t_write"
    THEN {[wall |-> a, ext |-> b] : a, b \in {lastChecked, lastChecked + 1}}
    ELSE {[wall |-> lastChecked, ext |-> lastChecked]}

\* LastCheckedAt, lines 302-304.
LastCheckedAt(c) ==
    /\ HMRunning
    /\ hpc[c] = "idle"
    /\ cl' = [cl EXCEPT ![c] = [NoCall EXCEPT !.kind = "LastCheckedAt"]]
    /\ \E t \in LoadLastChecked :
           hret' = [hret EXCEPT ![c] = [time |-> t, add |-> 0]]
    /\ UNCHANGED <<thVars, chVars, hmConst, hmBackends, hmBackendsMtx, healthyChan, unhealthyChan,
                   ctxDone, tickerStopped, tk, probe, lastChecked, hpc, hfault, started,
                   stopCalled, consec>>

\* NextCheckAt, lines 306-308: h.lastChecked.Add(h.cfg.Interval).
NextCheckAt(c) ==
    /\ HMRunning
    /\ hpc[c] = "idle"
    /\ cl' = [cl EXCEPT ![c] = [NoCall EXCEPT !.kind = "NextCheckAt"]]
    /\ \E t \in LoadLastChecked :
           hret' = [hret EXCEPT ![c] = [time |-> t, add |-> cfg.Interval]]
    /\ UNCHANGED <<thVars, chVars, hmConst, hmBackends, hmBackendsMtx, healthyChan, unhealthyChan,
                   ctxDone, tickerStopped, tk, probe, lastChecked, hpc, hfault, started,
                   stopCalled, consec>>

\* One caller asks for the two times while the monitor, started with no
\* backend or with one, ticks.
HMClockInit ==
    /\ \E o \in HMOptions({<<>>, <<CfgB1>>}, {1}, {1}) :
           /\ o.HealthyInitially
           /\ ~o.EnableHealthyChannel
           /\ ~o.EnableUnhealthyChannel
           /\ NewHealthMonitor(o)
    /\ CHIdle
    /\ THIdle

HMClockNext ==
    \/ StartCall(HMOwner)
    \/ AddLock(HMOwner)
    \/ AddLoop(HMOwner)
    \/ AddSend(HMOwner)
    \/ StartSpawn(HMOwner)
    \/ TickWriteBegin
    \/ TickWriteEnd
    \/ TickLock
    \/ TickSpawn
    \/ \E n \in HMNames : ProbeRun(n)
    \/ TickJoin
    \/ \E c \in HMCallers : LastCheckedAt(c)
    \/ \E c \in HMCallers : NextCheckAt(c)

SpecHMClock == HMClockInit /\ [][HMClockNext]_vars

\* C36: what LastCheckedAt and NextCheckAt return is a whole value of
\* lastChecked whose store is complete (never a mix of the words of two
\* values, never a value the ticker is still storing), and NextCheckAt adds
\* Interval to it.
C36_LastCheckedOrdered ==
    \A c \in HMClients :
        cl[c].kind \in {"LastCheckedAt", "NextCheckAt"} =>
            /\ hret[c].time.wall = hret[c].time.ext
            /\ hret[c].time.wall <= lastChecked
            /\ hret[c].add = IF cl[c].kind = "NextCheckAt" THEN cfg.Interval ELSE 0

====
